---- MODULE Spec2Model ----
(***************************************************************************)
(* A model of ansibug's debuggee side: the breakpoint registry of          *)
(* AnsibleDebugger (_debuggee.py) and the thread/stepping state machine of *)
(* AnsibleDebugState (plugins/strategy/debug.py).                          *)
(*                                                                         *)
(* Python lists are modelled as TLA+ sequences, shifted by one: the list   *)
(* element at Python index i is element i + 1 of the sequence.  Python's   *)
(* None is PyNone where the slot otherwise holds an integer and NoMessage  *)
(* or NoStep where it otherwise holds a string.                            *)
(***************************************************************************)
EXTENDS Integers, Sequences, FiniteSets, TLC

VARIABLES
    connected,           \* AnsibleDebugger._connected
    recv_state,          \* position of AnsibleDebugger._recv_task
    mode,                \* the socket mode _recv_task was started with
    breakpoints,         \* AnsibleDebugger._breakpoints: id -> AnsibleLineBreakpoint
    breakpoint_counter,  \* AnsibleDebugger._breakpoint_counter
    source_info,         \* AnsibleDebugger._source_info: path -> line types
    sent,                \* what the last step handed to AnsibleDebugger.send, in order
    threads,             \* AnsibleDebugState.threads: host -> thread id (0: none yet)
    thread_counter,      \* AnsibleDebugger._thread_counter
    stepping_type,       \* AnsibleThread.stepping_type of each host's thread
    stepping_task,       \* AnsibleThread.stepping_task of each host's thread
    waiting_threads,     \* AnsibleDebugState._waiting_threads: thread id -> step mode
    pc,                  \* where each host's execution thread is
    pos,                 \* index in Order of the task the host runs (or runs next)
    learn,               \* locals of a register_path_breakpoint call in progress
    alloc,               \* locals of each host's next_thread_id call in progress
    strategy,            \* AnsibleDebugger._strategy
    with_pc,             \* where each strategy's with_strategy context is
    da_connected,        \* AnsibleDebugger._da_connected (an Event)
    configuration_done,  \* AnsibleDebugger._configuration_done (an Event)
    ended_calls,         \* how often each strategy's ended() has been called
    send_queue,          \* AnsibleDebugger._send_queue
    wire,                \* the messages _recv_task handed to mp_queue.send, in order
    enqueued,            \* the messages send() was called with, in the order of the calls
    cancelled,           \* SocketCancellationToken._cancelled
    cancel_funcs,        \* SocketCancellationToken._cancel_funcs: the ids registered
    cancel_id,           \* SocketCancellationToken._cancel_id
    token_lock,          \* SocketCancellationToken._lock: the thread holding it
    op,                  \* locals of each thread's guarded socket operation
    canceller,           \* locals of each thread's cancel() call
    abort_calls,         \* how often each registered abort callback has been called
    sock,                \* the socket the guarded operations work on
    rx,                  \* locals of a SocketHelper.recv call, and the peer's byte stream
    stack_frames,        \* AnsibleThread.stack_frames of each host's thread, newest first
    stackframes,         \* AnsibleDebugState.stackframes: id -> AnsibleStackFrame
    variables,           \* AnsibleDebugState.variables: id -> AnsibleVariable
    stackframe_counter,  \* AnsibleDebugger._stackframe_counter
    variable_counter,    \* AnsibleDebugger._variable_counter
    running,             \* the task each host has started and not yet got the result of
    adding,              \* locals of the receive thread's request that adds variables
    setting              \* locals of a SetBreakpointsRequest taken step by step

bpVars == <<breakpoints, breakpoint_counter, source_info>>
connVars == <<connected, recv_state, mode>>
stepVars == <<stepping_type, stepping_task, waiting_threads>>
localVars == <<learn, alloc>>
engineVars == <<threads, thread_counter, pc, pos, localVars>>
sessVars == <<strategy, with_pc, da_connected, configuration_done, ended_calls>>
queueVars == <<send_queue, wire, enqueued>>
tokenVars == <<cancelled, cancel_funcs, cancel_id, token_lock, op, canceller, abort_calls, sock>>
frameVars == <<stack_frames, stackframes, variables, stackframe_counter, variable_counter,
               running, adding>>
vars == <<connVars, bpVars, stepVars, engineVars, sent, sessVars, queueVars, tokenVars, rx,
          frameVars, setting>>

----------------------------------------------------------------------------
(* Bounds of the model. *)

\* Largest line number a client request or a learn call names.
MaxLine == 2
\* Largest breakpoint id handed out: requests stop once the counter passes it.
MaxBpId == 2
\* Largest sequence number of a request that is answered with an error.
MaxSeq == 2
\* Largest number of send() calls.
MaxSent == 3
\* Largest number of guarded socket operations that are registered.
MaxCancelId == 3
\* Largest variable id handed out: requests that add variables stop there.
MaxVarId == 5
\* Largest frame id a scopes request names.
MaxFrameId == 3
\* Largest number of bytes a SocketHelper.recv call asks for.
MaxRecv == 3
\* Largest number of bytes the peer sends.
MaxStream == 4

----------------------------------------------------------------------------
(* Values. *)

\* None in an Optional[int] slot: a line type, Breakpoint.line, Breakpoint.end_line.
PyNone == -1
\* None in Breakpoint.message.
NoMessage == "<None>"

MsgCannotSet == "Breakpoint cannot be set here."
MsgNotLoaded == "File has not been loaded by Ansible, cannot detect breakpoints yet."
MsgModified == "Cannot set breakpoint on a modified source."

\* The source files of the modelled playbook.
Paths == {"main.yml", "inc.yml", "sub.yml"}

\* SourceBreakpoint.condition: "" is no condition; the others are expressions
\* named after what evaluating them does.
Conditions == {"", "truthy", "falsy", "raises"}

\* The elements of a list, as a set.
Range(seq) == {seq[k] : k \in 1..Len(seq)}

Min(a, b) == IF a <= b THEN a ELSE b

\* lst[i] of a Python list, negative indices counting from the end.
At(lst, i) == IF i >= 0 THEN lst[i + 1] ELSE lst[Len(lst) + i + 1]

\* lst.extend([None] * n): nothing for n <= 0.
ExtendNone(lst, n) == lst \o [k \in 1..n |-> PyNone]

\* The ids of a breakpoint map in dict (insertion) order: every insertion uses
\* the next counter value, so insertion order is id order.
RECURSIVE SortedIds(_)
SortedIds(S) ==
    IF S = {} THEN <<>>
    ELSE LET m == CHOOSE x \in S : \A y \in S : x <= y
         IN <<m>> \o SortedIds(S \ {m})

IdsOn(bps, path) == {i \in DOMAIN bps : bps[i].path = path}

----------------------------------------------------------------------------
(* The breakpoint registry: AnsibleDebugger._source_info and _breakpoints. *)

\* The line list of a path; the empty list stands for a path with no entry
\* (both make "not source_info" true).
LinesOf(si, path) == si[path]

\* The list update starting a new list empty, without the entry for line 0.
RegisterLines_no_sentinel(si, path, line, bp_type) ==
    [ExtendNone(si[path], 1 + line - Len(si[path])) EXCEPT ![line + 1] = bp_type]

\* register_path_breakpoint, the list update: setdefault(path, [0]), extend
\* with None up to index line, then set index line.
RegisterLines(si, path, line, bp_type) ==
    LET file0 == IF si[path] = <<>> THEN <<0>> ELSE si[path]
        file1 == ExtendNone(file0, 1 + line - Len(file0))
    IN [file1 EXCEPT ![line + 1] = bp_type]

\* register_path_breakpoint: "while line_type is None: start_line -= 1".
RECURSIVE RegScanBack(_, _)
RegScanBack(file_lines, start_line) ==
    IF At(file_lines, start_line) = PyNone
    THEN RegScanBack(file_lines, start_line - 1)
    ELSE start_line

\* register_path_breakpoint: "while end_line < len(file_lines) and
\* file_lines[end_line] is None: end_line += 1".
RECURSIVE RegScanFwd(_, _)
RegScanFwd(file_lines, end_line) ==
    IF end_line < Len(file_lines) /\ At(file_lines, end_line) = PyNone
    THEN RegScanFwd(file_lines, end_line + 1)
    ELSE end_line

\* register_path_breakpoint, the body of the loop over the breakpoints of the
\* path: the resolved (verified, message, line, end_line) of one breakpoint.
RegisterResolve(file_lines, b) ==
    LET start0 == Min(b.source_breakpoint.line, Len(file_lines) - 1)
        start_line == RegScanBack(file_lines, start0)
        end_line == Min(RegScanFwd(file_lines, start0 + 1) - 1, Len(file_lines))
        line_type == At(file_lines, start_line)
    IN [id |-> b.id,
        verified |-> line_type # 0,
        message |-> IF line_type = 0 THEN MsgCannotSet ELSE NoMessage,
        path |-> b.path,
        line |-> start_line,
        end_line |-> end_line]

\* The comparison without its end_line part.
RegisterChanged_no_end_line(b, r) ==
    \/ b.breakpoint.verified # r.verified
    \/ b.breakpoint.line # r.line

\* register_path_breakpoint, the comparison that decides whether the
\* breakpoint is replaced and a "changed" event sent.
RegisterChanged(b, r) ==
    \/ b.breakpoint.verified # r.verified
    \/ b.breakpoint.line # r.line
    \/ b.breakpoint.end_line # r.end_line

BreakpointEvent(bp) == [type |-> "BreakpointEvent", reason |-> "changed", breakpoint |-> bp]

\* register_path_breakpoint as a function of the registry: reg is
\* [si, bps, out], out the messages sent so far.
RegisterPathBreakpointOn(reg, path, line, bp_type) ==
    LET file_lines == RegisterLines(reg.si, path, line, bp_type)
        ids == SortedIds(IdsOn(reg.bps, path))
        res(i) == RegisterResolve(file_lines, reg.bps[i])
        chg(i) == RegisterChanged(reg.bps[i], res(i))
        events == SelectSeq(ids, chg)
    IN [si |-> [reg.si EXCEPT ![path] = file_lines],
        bps |-> [i \in DOMAIN reg.bps |->
                    IF reg.bps[i].path = path /\ chg(i)
                    THEN [reg.bps[i] EXCEPT !.breakpoint = res(i)]
                    ELSE reg.bps[i]],
        out |-> reg.out \o [k \in 1..Len(events) |-> BreakpointEvent(res(events[k]))]]

\* The handler without its backward scan.
ReqScanBack_unscanned(info, start_line) == start_line

\* SetBreakpointsRequest handler: "while line_type is None: start_line -= 1".
RECURSIVE ReqScanBack(_, _)
ReqScanBack(info, start_line) ==
    IF At(info, start_line) = PyNone
    THEN ReqScanBack(info, start_line - 1)
    ELSE start_line

\* The forward scan walking towards the start of the list.
RECURSIVE ReqScanFwd_backward(_, _)
ReqScanFwd_backward(info, end_line) ==
    IF end_line < Len(info) /\ At(info, end_line) = PyNone
    THEN ReqScanFwd_backward(info, end_line - 1)
    ELSE end_line

\* SetBreakpointsRequest handler: the forward scan over continuation lines.
RECURSIVE ReqScanFwd(_, _)
ReqScanFwd(info, end_line) ==
    IF end_line < Len(info) /\ At(info, end_line) = PyNone
    THEN ReqScanFwd(info, end_line + 1)
    ELSE end_line

\* SetBreakpointsRequest handler: the dap.Breakpoint built for one requested
\* source breakpoint sb = [line, condition], given the path's line list.
RequestResolve(bp_id, path, sb, source_modified, info) ==
    IF source_modified
    THEN [id |-> bp_id, verified |-> FALSE, message |-> MsgModified,
          path |-> path, line |-> PyNone, end_line |-> PyNone]
    ELSE IF info = <<>>
    THEN [id |-> bp_id, verified |-> FALSE, message |-> MsgNotLoaded,
          path |-> path, line |-> sb.line, end_line |-> PyNone]
    ELSE LET start0 == Min(sb.line, Len(info) - 1)
             start_line == ReqScanBack(info, start0)
             end_line == Min(ReqScanFwd(info, start0 + 1) - 1, Len(info))
             line_type == At(info, start_line)
         IN [id |-> bp_id,
             verified |-> line_type # 0,
             message |-> IF line_type = 0 THEN MsgCannotSet ELSE NoMessage,
             path |-> path,
             line |-> start_line,
             end_line |-> end_line]

\* The handler without the clearing of the path's breakpoints.
KeptBreakpoints_uncleared(bps, source_path) == bps

\* SetBreakpointsRequest handler: the breakpoints of other paths survive.
KeptBreakpoints(bps, source_path) ==
    [i \in {j \in DOMAIN bps : bps[j].path # source_path} |-> bps[i]]

\* SetBreakpointsRequest handler: the response's breakpoint list, the k-th
\* taking id breakpoint_counter + k - 1.
BreakpointInfo(source_path, reqs, source_modified) ==
    [k \in 1..Len(reqs) |->
        RequestResolve(breakpoint_counter + k - 1, source_path, reqs[k],
                       source_modified, LinesOf(source_info, source_path))]

\* The handler storing the breakpoints of a modified source like the others.
NewBreakpoints_modified_stored(source_path, reqs, source_modified) ==
    LET info == BreakpointInfo(source_path, reqs, source_modified)
    IN [i \in breakpoint_counter..(breakpoint_counter + Len(reqs) - 1) |->
            [id |-> i,
             path |-> source_path,
             source_breakpoint |-> reqs[i - breakpoint_counter + 1],
             breakpoint |-> info[i - breakpoint_counter + 1]]]

\* SetBreakpointsRequest handler: the entries stored in _breakpoints; none
\* for a request against a modified source.
NewBreakpoints(source_path, reqs, source_modified) ==
    LET info == BreakpointInfo(source_path, reqs, source_modified)
        n == IF source_modified THEN 0 ELSE Len(reqs)
    IN [i \in breakpoint_counter..(breakpoint_counter + n - 1) |->
            [id |-> i,
             path |-> source_path,
             source_breakpoint |-> reqs[i - breakpoint_counter + 1],
             breakpoint |-> info[i - breakpoint_counter + 1]]]

SetBreakpointsResponse(info) == [type |-> "SetBreakpointsResponse", breakpoints |-> info]

\* The handler's local source_info when its loop runs: the line list object
\* the handler got at its start, with what has been written to it since, or
\* None if the path had no list then.
LocalSourceInfo == IF setting.loaded THEN LinesOf(source_info, setting.path) ELSE <<>>

\* SetBreakpointsRequest handler: the response's breakpoint list, resolved
\* against the handler's local source_info.
LocalBreakpointInfo ==
    [k \in 1..Len(setting.reqs) |->
        RequestResolve(breakpoint_counter + k - 1, setting.path, setting.reqs[k], FALSE,
                       LocalSourceInfo)]

----------------------------------------------------------------------------
(* The playbook the engine runs: Ansible's Task and Block objects, linked  *)
(* by _parent.  main.yml holds the include "inc" (line 1) and the task t4  *)
(* (line 2); inc.yml holds c1, the include "inc2" and c3 (lines 1 to 3);   *)
(* sub.yml holds an explicit block (line 1) with the task d1 (line 2).     *)

\* _parent of a top-level block, stepping_task of a thread that is not stepping.
NoNode == "<None>"

TaskNodes == {"inc", "c1", "inc2", "d1", "c3", "t4"}
BlockNodes == {"bMain", "bInc", "bSub"}
Nodes == TaskNodes \cup BlockNodes

\* obj._parent
Parent ==
    [n \in Nodes |->
        CASE n \in {"inc", "t4"} -> "bMain"
          [] n \in {"c1", "inc2", "c3"} -> "bInc"
          [] n = "d1" -> "bSub"
          [] n = "bMain" -> NoNode
          [] n = "bInc" -> "inc"
          [] n = "bSub" -> "inc2"]

\* isinstance(obj, Task)
IsTask(n) == n \in TaskNodes

\* task.action in C._ACTION_ALL_INCLUDES
IsInclude(n) == n \in {"inc", "inc2"}

\* obj._uuid: every object has its own; getattr(None, "_uuid", None) is None.
Uuid(n) == n

\* obj.get_path(), split at the last colon; "" for an implicit block.
PathOf(n) ==
    CASE n \in {"inc", "t4"} -> "main.yml"
      [] n \in {"c1", "inc2", "c3"} -> "inc.yml"
      [] n \in {"d1", "bSub"} -> "sub.yml"
      [] OTHER -> ""

LineOf(n) ==
    CASE n \in {"inc", "c1", "bSub"} -> 1
      [] n \in {"t4", "inc2", "d1"} -> 2
      [] n = "c3" -> 3
      [] OTHER -> 0

\* The blocks _load_included_file gets for an include task, each with its
\* task list (block + rescue + always).
IncludedBlocks(n) ==
    CASE n = "inc" -> <<[block |-> "bInc", tasks |-> <<"c1", "inc2", "c3">>]>>
      [] n = "inc2" -> <<[block |-> "bSub", tasks |-> <<"d1">>]>>
      [] OTHER -> <<>>

\* The order in which the strategy queues the tasks for one host.
Order == <<"inc", "c1", "inc2", "d1", "c3", "t4">>

\* The hosts of the play, one execution thread each.
Hosts == {"h1", "h2"}

\* The thread ids the hosts' threads can get: 1 is the main thread.
HostTids == 2..(1 + Cardinality(Hosts))

\* The receive thread is in no request that adds variables: sf is the id of
\* the frame the request works on, todo the number of variables it has still
\* to add.
NoAdding == [command |-> "", sf |-> PyNone, todo |-> 0]

\* No SetBreakpointsRequest is between its steps: path and reqs are the
\* request's source path and breakpoints, loaded whether the handler's local
\* source_info is a line list (and not None).
NoSetting == [path |-> "", reqs |-> <<>>, loaded |-> FALSE]

\* None as a step mode (_waiting_threads value, stepping_type).
NoStep == "<None>"

\* The strategies (one AnsibleDebugState per play run) that register.
Strategies == {"s1", "s2"}
\* None in AnsibleDebugger._strategy.
NoStrategy == "<None>"
StepModes == {"in", "out", "over"}

\* No register_path_breakpoint call is between two of its steps: path is the
\* call's path, todo the ids its loop has still to visit, objs the
\* AnsibleLineBreakpoint objects of the dict the loop iterates.
NoLearn == [path |-> "", todo |-> <<>>, objs |-> <<>>]

\* No next_thread_id call is between two of its steps: tid is the local tid,
\* tmp the value "+= 1" has loaded (PyNone: not yet).
NoAlloc == [tid |-> PyNone, tmp |-> PyNone]

----------------------------------------------------------------------------
(* AnsibleThread's step predicates. *)

\* "while task := task._parent: if isinstance(task, Task): break"
RECURSIVE TaskAncestor(_)
TaskAncestor(n) ==
    LET p == Parent[n]
    IN IF p = NoNode THEN NoNode
       ELSE IF IsTask(p) THEN p
       ELSE TaskAncestor(p)

\* break_step_over comparing the task's ancestor with the stepping task itself,
\* the walk up from the stepping task left out.
break_step_over_unwalked(h, task) ==
    IF stepping_type[h] # "over" \/ stepping_task[h] = NoNode
    THEN FALSE
    ELSE Uuid(stepping_task[h]) = Uuid(TaskAncestor(task))

\* break_step_over matching every task while a step-over is pending.
break_step_over_any_task(h, task) ==
    stepping_type[h] = "over" /\ stepping_task[h] # NoNode

\* AnsibleThread.break_step_over
break_step_over(h, task) ==
    IF stepping_type[h] # "over" \/ stepping_task[h] = NoNode
    THEN FALSE
    ELSE Uuid(TaskAncestor(stepping_task[h])) = Uuid(TaskAncestor(task))

\* break_step_in testing for the wrong mode.
break_step_in_wrong_mode(h) == stepping_type[h] = "over" /\ stepping_task[h] = NoNode

\* AnsibleThread.break_step_in
break_step_in(h) == stepping_type[h] = "in"

\* Whether the walk "while task := task._parent" meets an object whose uuid
\* is that of s.
RECURSIVE HasAncestor(_, _)
HasAncestor(n, s) ==
    LET p == Parent[n]
    IN IF p = NoNode THEN FALSE
       ELSE IF Uuid(p) = Uuid(s) THEN TRUE
       ELSE HasAncestor(p, s)

\* break_step_out looking at the task's parent only, without the loop.
break_step_out_parent_only(h, task) ==
    IF stepping_type[h] # "out" \/ stepping_task[h] = NoNode
    THEN FALSE
    ELSE Uuid(Parent[task]) # Uuid(stepping_task[h])

\* AnsibleThread.break_step_out
break_step_out(h, task) ==
    IF stepping_type[h] # "out" \/ stepping_task[h] = NoNode
    THEN FALSE
    ELSE ~HasAncestor(task, stepping_task[h])

\* process_task, after the wait: "while stepping_task := stepping_task._parent:
\* if isinstance(stepping_task, Task) and stepping_task.action in
\* C._ACTION_ALL_INCLUDES: break".
RECURSIVE IncludeAncestor(_)
IncludeAncestor(n) ==
    LET p == Parent[n]
    IN IF p = NoNode THEN NoNode
       ELSE IF IsTask(p) /\ IsInclude(p) THEN p
       ELSE IncludeAncestor(p)

----------------------------------------------------------------------------
(* AnsibleDebugger.get_breakpoint and the stop decision of process_task. *)

\* get_breakpoint returning None.
NoBp == 0

\* get_breakpoint, the test of one breakpoint.
Covers(b, path, line) ==
    /\ b.path = path
    /\ (b.breakpoint.line = PyNone \/ b.breakpoint.line <= line)
    /\ (b.breakpoint.end_line = PyNone \/ b.breakpoint.end_line >= line)

\* AnsibleDebugger.get_breakpoint: the first breakpoint in dict order that
\* covers the line, None when not connected.
get_breakpoint(path, line) ==
    IF ~connected THEN NoBp
    ELSE LET hits == {i \in DOMAIN breakpoints : Covers(breakpoints[i], path, line)}
         IN IF hits = {} THEN NoBp
            ELSE CHOOSE i \in hits : \A j \in hits : i <= j

\* Conditional.evaluate_conditional on a breakpoint condition: it returns a
\* bool or raises AnsibleError (it wraps every exception of the template).
evaluate_conditional(cond) ==
    CASE cond = "truthy" -> "True"
      [] cond = "falsy" -> "False"
      [] OTHER -> "AnsibleError"

\* The try/except without its except clause: AnsibleError leaves process_task.
ConditionOutcome_uncaught(cond) ==
    CASE evaluate_conditional(cond) = "True" -> "keep"
      [] evaluate_conditional(cond) = "False" -> "drop"
      [] OTHER -> "raise"

\* process_task, the try/except around evaluate_conditional: the breakpoint is
\* kept, dropped (line_breakpoint = None), or the exception leaves process_task.
ConditionOutcome(cond) ==
    CASE evaluate_conditional(cond) = "True" -> "keep"
      [] evaluate_conditional(cond) = "False" -> "drop"
      [] evaluate_conditional(cond) = "AnsibleError" -> "drop"
      [] OTHER -> "raise"

\* Whether the breakpoint found for the task carries a condition to evaluate.
HasCondition(task) ==
    LET b == get_breakpoint(PathOf(task), LineOf(task))
    IN b # NoBp /\ breakpoints[b].source_breakpoint.condition # ""

\* process_task: line_breakpoint once the condition has been evaluated.
line_breakpoint(task) ==
    LET b == get_breakpoint(PathOf(task), LineOf(task))
    IN IF HasCondition(task)
       THEN IF ConditionOutcome(breakpoints[b].source_breakpoint.condition) = "keep"
            THEN b ELSE NoBp
       ELSE b

\* Whether an exception of the condition's evaluation leaves process_task.
ConditionRaises(task) ==
    /\ HasCondition(task)
    /\ ConditionOutcome(breakpoints[get_breakpoint(PathOf(task), LineOf(task))]
                            .source_breakpoint.condition) = "raise"

\* stopped_kwargs = {}
NoStop == [reason |-> "", description |-> ""]

\* The if/elif chain with the breakpoint branch taken in step-out mode too.
stopped_kwargs_breakpoint_in_out(h, task) ==
    IF break_step_over(h, task)
    THEN [reason |-> "step", description |-> "Step over"]
    ELSE IF break_step_out(h, task)
    THEN [reason |-> "step", description |-> "Step out"]
    ELSE IF break_step_in(h)
    THEN [reason |-> "step", description |-> "Step in"]
    ELSE IF line_breakpoint(task) # NoBp
    THEN [reason |-> "breakpoint", description |-> "Breakpoint hit"]
    ELSE NoStop

\* process_task, the if/elif chain that fills stopped_kwargs.
stopped_kwargs(h, task) ==
    IF break_step_over(h, task)
    THEN [reason |-> "step", description |-> "Step over"]
    ELSE IF break_step_out(h, task)
    THEN [reason |-> "step", description |-> "Step out"]
    ELSE IF break_step_in(h)
    THEN [reason |-> "step", description |-> "Step in"]
    ELSE IF stepping_type[h] # "out" /\ line_breakpoint(task) # NoBp
    THEN [reason |-> "breakpoint", description |-> "Breakpoint hit"]
    ELSE NoStop

ThreadEvent(reason, tid) == [type |-> "ThreadEvent", reason |-> reason, thread_id |-> tid]

\* The Stopped event naming the main thread instead of the stopping one.
StoppedEvent_main_thread(tid, kw) ==
    [type |-> "StoppedEvent", thread_id |-> 1, reason |-> kw.reason,
     description |-> kw.description]

\* ansibug.dap.StoppedEvent(thread_id=tid, **stopped_kwargs)
StoppedEvent(tid, kw) ==
    [type |-> "StoppedEvent", thread_id |-> tid, reason |-> kw.reason,
     description |-> kw.description]

----------------------------------------------------------------------------
(* The execution threads: StrategyModule._queue_task calling process_task, *)
(* and _load_included_file.                                                *)

\* Where the host goes once process_task has returned for Order[pos[h]]: an
\* include is run and its file loaded, any other task is followed by the next.
Returned(h) ==
    LET task == Order[pos[h]]
    IN IF IsInclude(task)
       THEN pc' = [pc EXCEPT ![h] = "load"] /\ pos' = pos
       ELSE /\ pos' = [pos EXCEPT ![h] = pos[h] + 1]
            /\ pc' = [pc EXCEPT ![h] = IF pos[h] + 1 > Len(Order) THEN "done" ELSE "queue"]

\* process_task up to its return or to the wait on _waiting_condition.
ProcessTask(h) ==
    /\ pc[h] = "queue"
    /\ LET task == Order[pos[h]]
           new == threads[h] = 0
           tid == IF new THEN thread_counter ELSE threads[h]
           started == IF new THEN <<ThreadEvent("started", tid)>> ELSE <<>>
           kw == stopped_kwargs(h, task)
       IN /\ threads' = [threads EXCEPT ![h] = tid]
          /\ thread_counter' = IF new THEN thread_counter + 1 ELSE thread_counter
          /\ IF PathOf(task) = ""
             THEN sent' = started /\ Returned(h)
             ELSE IF ConditionRaises(task)
             THEN sent' = started /\ pc' = [pc EXCEPT ![h] = "raised"] /\ pos' = pos
             ELSE IF kw # NoStop
             THEN /\ sent' = started \o <<StoppedEvent(tid, kw)>>
                  /\ pc' = [pc EXCEPT ![h] = "waiting"]
                  /\ pos' = pos
             ELSE sent' = started /\ Returned(h)
    /\ UNCHANGED <<frameVars, rx, setting, tokenVars, queueVars, sessVars, connVars, bpVars, stepVars, localVars>>

\* process_task from the return of wait_for to its own return: the wait ends
\* once the thread's id is a key of _waiting_threads.
WaitReturn(h) ==
    /\ pc[h] = "waiting"
    /\ threads[h] \in DOMAIN waiting_threads
    /\ LET task == Order[pos[h]]
           tid == threads[h]
           popped == waiting_threads[tid]
           st == IF popped = "in" /\ ~IsInclude(task) THEN "over" ELSE popped
       IN /\ waiting_threads' = [t \in DOMAIN waiting_threads \ {tid} |-> waiting_threads[t]]
          /\ IF st # NoStep
             THEN /\ stepping_type' = [stepping_type EXCEPT ![h] = st]
                  /\ stepping_task' = [stepping_task EXCEPT ![h] =
                                          IF st = "out" THEN IncludeAncestor(task) ELSE task]
             ELSE /\ stepping_type' = [stepping_type EXCEPT ![h] = NoStep]
                  /\ stepping_task' = [stepping_task EXCEPT ![h] = NoNode]
    /\ Returned(h)
    /\ sent' = <<>>
    /\ UNCHANGED <<frameVars, rx, setting, tokenVars, queueVars, sessVars, connVars, bpVars, threads, thread_counter, localVars>>

\* The register_path_breakpoint calls of _load_included_file for an include
\* task: the line of each block that has a path as 0, then each task as 1.
LearnCalls(n) ==
    LET blocks == IncludedBlocks(n)
        one(b) == (IF PathOf(b.block) # ""
                   THEN <<[path |-> PathOf(b.block), line |-> LineOf(b.block), bp_type |-> 0]>>
                   ELSE <<>>)
                  \o [k \in 1..Len(b.tasks) |->
                        [path |-> PathOf(b.tasks[k]), line |-> LineOf(b.tasks[k]), bp_type |-> 1]]
        RECURSIVE all(_)
        all(k) == IF k > Len(blocks) THEN <<>> ELSE one(blocks[k]) \o all(k + 1)
    IN all(1)

RECURSIVE ApplyLearn(_, _)
ApplyLearn(reg, calls) ==
    IF calls = <<>> THEN reg
    ELSE ApplyLearn(RegisterPathBreakpointOn(reg, Head(calls).path, Head(calls).line,
                                              Head(calls).bp_type),
                    Tail(calls))

\* StrategyModule._load_included_file for the include the host has just run.
LoadIncludedFile(h) ==
    /\ pc[h] = "load"
    /\ LET reg == ApplyLearn([si |-> source_info, bps |-> breakpoints, out |-> <<>>],
                             LearnCalls(Order[pos[h]]))
       IN /\ source_info' = reg.si
          /\ breakpoints' = reg.bps
          /\ sent' = reg.out
    /\ pos' = [pos EXCEPT ![h] = pos[h] + 1]
    /\ pc' = [pc EXCEPT ![h] = IF pos[h] + 1 > Len(Order) THEN "done" ELSE "queue"]
    /\ UNCHANGED <<frameVars, rx, setting, tokenVars, queueVars, sessVars, connVars, breakpoint_counter, stepVars, threads, thread_counter, localVars>>

\* AnsibleDebugger.register_path_breakpoint called for one line.
RegisterPathBreakpoint(path, line, bp_type) ==
    /\ LET reg == RegisterPathBreakpointOn([si |-> source_info, bps |-> breakpoints, out |-> <<>>],
                                           path, line, bp_type)
       IN /\ source_info' = reg.si
          /\ breakpoints' = reg.bps
          /\ sent' = reg.out
    /\ UNCHANGED <<frameVars, rx, setting, tokenVars, queueVars, sessVars, connVars, breakpoint_counter, stepVars, engineVars>>

\* process_task finds no thread for the host and calls add_thread, which
\* calls next_thread_id: "tid = self._thread_counter".  Neither method holds
\* a lock, so the steps of the call are taken one by one.
NextThreadIdRead(h) ==
    /\ pc[h] = "queue"
    /\ threads[h] = 0
    /\ alloc[h] = NoAlloc
    /\ alloc' = [alloc EXCEPT ![h] = [tid |-> thread_counter, tmp |-> PyNone]]
    /\ sent' = <<>>
    /\ UNCHANGED <<frameVars, rx, setting, tokenVars, queueVars, sessVars, connVars, bpVars, stepVars, threads, thread_counter, pc, pos, learn>>

\* next_thread_id: "self._thread_counter += 1", the load of the attribute.
NextThreadIdLoad(h) ==
    /\ alloc[h].tid # PyNone
    /\ alloc[h].tmp = PyNone
    /\ alloc' = [alloc EXCEPT ![h].tmp = thread_counter]
    /\ sent' = <<>>
    /\ UNCHANGED <<frameVars, rx, setting, tokenVars, queueVars, sessVars, connVars, bpVars, stepVars, threads, thread_counter, pc, pos, learn>>

\* next_thread_id: "self._thread_counter += 1", the store of the sum, and
\* the return of tid to add_thread, which records the thread and sends its
\* "started" event.
NextThreadIdStore(h) ==
    /\ alloc[h].tmp # PyNone
    /\ thread_counter' = alloc[h].tmp + 1
    /\ threads' = [threads EXCEPT ![h] = alloc[h].tid]
    /\ sent' = <<ThreadEvent("started", alloc[h].tid)>>
    /\ alloc' = [alloc EXCEPT ![h] = NoAlloc]
    /\ UNCHANGED <<frameVars, rx, setting, tokenVars, queueVars, sessVars, connVars, bpVars, stepVars, pc, pos, learn>>

\* register_path_breakpoint up to the start of its loop: the line list is
\* updated and the loop takes its iterator over the dict _breakpoints names
\* at that moment.  The method holds no lock, so steps of the receive thread
\* can come between this one and the loop's iterations.
LearnBegin(path, line, bp_type) ==
    /\ learn = NoLearn
    /\ source_info' = [source_info EXCEPT ![path] = RegisterLines(source_info, path, line, bp_type)]
    /\ LET todo == SortedIds(IdsOn(breakpoints, path))
       IN learn' = IF todo = <<>> THEN NoLearn
                   ELSE [path |-> path, todo |-> todo,
                         objs |-> [i \in IdsOn(breakpoints, path) |-> breakpoints[i]]]
    /\ sent' = <<>>
    /\ UNCHANGED <<frameVars, rx, setting, tokenVars, queueVars, sessVars, connVars, breakpoints, breakpoint_counter, stepVars,
                   threads, thread_counter, pc, pos, alloc>>

\* register_path_breakpoint, one iteration of its loop: the next object of
\* the dict the iterator was taken from, whether or not _breakpoints still
\* names that dict.  An object that the current dict holds too is the same
\* object, so replacing its breakpoint shows there.
LearnStep ==
    /\ learn # NoLearn
    /\ LET i == Head(learn.todo)
           held == i \in DOMAIN breakpoints
           obj == IF held THEN breakpoints[i] ELSE learn.objs[i]
           r == RegisterResolve(source_info[learn.path], obj)
           chg == RegisterChanged(obj, r)
           rest == Tail(learn.todo)
       IN /\ breakpoints' = IF held /\ chg
                             THEN [breakpoints EXCEPT ![i].breakpoint = r]
                             ELSE breakpoints
          /\ sent' = IF chg THEN <<BreakpointEvent(r)>> ELSE <<>>
          /\ learn' = IF rest = <<>> THEN NoLearn ELSE [learn EXCEPT !.todo = rest]
    /\ UNCHANGED <<frameVars, rx, setting, tokenVars, queueVars, sessVars, connVars, breakpoint_counter, source_info, stepVars,
                   threads, thread_counter, pc, pos, alloc>>

----------------------------------------------------------------------------
(* The receive thread: _recv_task, and DAProtocol.on_msg_received handing  *)
(* each request to AnsibleDebugger.process_message.                        *)

\* _recv_task: the debug adapter is connected, mp_queue.start(); the task sets
\* _da_connected and _connected.
RecvConnect ==
    /\ recv_state = "connecting"
    /\ recv_state' = "serving"
    /\ da_connected' = TRUE
    /\ connected' = TRUE
    /\ sent' = <<>>
    /\ UNCHANGED <<strategy, with_pc, configuration_done, ended_calls>>
    /\ UNCHANGED <<frameVars, rx, setting, tokenVars, queueVars, mode, bpVars, stepVars, engineVars>>

\* AnsibleDebugState.ended
ended == waiting_threads' = <<>>

\* The end of _recv_task leaving the strategy untold.
RecvTaskEnd_untold ==
    /\ recv_state' = "ended"
    /\ da_connected' = TRUE
    /\ configuration_done' = TRUE
    /\ UNCHANGED <<waiting_threads, ended_calls>>

\* _recv_task after its try statement: both events are set and, under the
\* _strategy_connected lock, the registered strategy is told that it ended.
RecvTaskEnd ==
    /\ recv_state' = "ended"
    /\ da_connected' = TRUE
    /\ configuration_done' = TRUE
    /\ IF strategy # NoStrategy
       THEN ended /\ ended_calls' = [ended_calls EXCEPT ![strategy] = @ + 1]
       ELSE UNCHANGED <<waiting_threads, ended_calls>>

\* _recv_task: the send loop breaks and its finally clause clears
\* _da_connected and _connected.  In listen mode the task waits for the next
\* adapter; in connect mode it leaves the outer loop and ends.
RecvLoopBreak ==
    /\ connected' = FALSE
    /\ IF mode = "connect"
       THEN RecvTaskEnd
       ELSE /\ recv_state' = "connecting"
            /\ da_connected' = FALSE
            /\ UNCHANGED <<configuration_done, ended_calls, waiting_threads>>

\* _recv_task: the peer closes, connection_closed sends None and the send
\* loop breaks.
RecvClosed ==
    /\ recv_state = "serving"
    /\ RecvLoopBreak
    /\ sent' = <<>>
    /\ UNCHANGED <<strategy, with_pc>>
    /\ UNCHANGED <<frameVars, rx, setting, tokenVars, queueVars, mode, bpVars, stepping_type, stepping_task, engineVars>>

\* _recv_task: shutdown() cancels the token, the socket operation in flight
\* raises CancelledError and the task ends.
RecvCancelled ==
    /\ recv_state \in {"connecting", "serving"}
    /\ connected' = FALSE
    /\ RecvTaskEnd
    /\ sent' = <<>>
    /\ UNCHANGED <<strategy, with_pc>>
    /\ UNCHANGED <<frameVars, rx, setting, tokenVars, queueVars, mode, bpVars, stepping_type, stepping_task, engineVars>>

\* _recv_task: wait_for_dap_server, mp_queue.start or mp_queue.send raises
\* something else than CancelledError; the exception is logged and the task
\* ends.
RecvFault ==
    /\ recv_state \in {"connecting", "serving"}
    /\ connected' = FALSE
    /\ RecvTaskEnd
    /\ sent' = <<>>
    /\ UNCHANGED <<strategy, with_pc>>
    /\ UNCHANGED <<frameVars, rx, setting, tokenVars, queueVars, mode, bpVars, stepping_type, stepping_task, engineVars>>

\* AnsibleDebugger._get_strategy: wait_for(lambda: self._strategy is not None)
\* returns once a strategy is registered.
_get_strategy == strategy # NoStrategy

\* AnsibleDebugState._continue
_continue(thread_ids, action) ==
    [t \in DOMAIN waiting_threads \cup thread_ids |->
        IF t \in thread_ids THEN action ELSE waiting_threads[t]]

\* continue_request taking the all-threads branch whatever single_thread is.
continue_request_all_branch(thread_id, single_thread) ==
    _continue(DOMAIN waiting_threads, NoStep)

\* AnsibleDebugState.continue_request: the new _waiting_threads.
continue_request(thread_id, single_thread) ==
    IF single_thread
    THEN _continue({thread_id}, NoStep)
    ELSE _continue(DOMAIN waiting_threads, NoStep)

\* AnsibleDebugState.continue_request: the response.
ContinueResponse(single_thread) ==
    [type |-> "ContinueResponse",
     all_threads_continued |-> IF single_thread THEN FALSE ELSE TRUE]

\* process_message for a ContinueRequest.
ContinueRequest(thread_id, single_thread) ==
    /\ recv_state = "serving"
    /\ _get_strategy
    /\ waiting_threads' = continue_request(thread_id, single_thread)
    /\ sent' = <<ContinueResponse(single_thread)>>
    /\ UNCHANGED <<frameVars, rx, setting, tokenVars, queueVars, sessVars, connVars, bpVars, stepping_type, stepping_task, engineVars>>

\* process_message for a StepInRequest: step_in, then the response.
StepInRequest(thread_id) ==
    /\ recv_state = "serving"
    /\ _get_strategy
    /\ waiting_threads' = _continue({thread_id}, "in")
    /\ sent' = <<[type |-> "StepInResponse"]>>
    /\ UNCHANGED <<frameVars, rx, setting, tokenVars, queueVars, sessVars, connVars, bpVars, stepping_type, stepping_task, engineVars>>

\* process_message for a StepOutRequest: step_out, then the response.
StepOutRequest(thread_id) ==
    /\ recv_state = "serving"
    /\ _get_strategy
    /\ waiting_threads' = _continue({thread_id}, "out")
    /\ sent' = <<[type |-> "StepOutResponse"]>>
    /\ UNCHANGED <<frameVars, rx, setting, tokenVars, queueVars, sessVars, connVars, bpVars, stepping_type, stepping_task, engineVars>>

\* process_message for a NextRequest: step_over, then the response.
NextRequest(thread_id) ==
    /\ recv_state = "serving"
    /\ _get_strategy
    /\ waiting_threads' = _continue({thread_id}, "over")
    /\ sent' = <<[type |-> "NextResponse"]>>
    /\ UNCHANGED <<frameVars, rx, setting, tokenVars, queueVars, sessVars, connVars, bpVars, stepping_type, stepping_task, engineVars>>

\* dap.ErrorResponse(command=msg.command, request_seq=msg.seq,
\* message=f"Unknown error: {e!r}"), e given by its repr.
ErrorResponse(command, request_seq, e) ==
    [type |-> "ErrorResponse", command |-> command, request_seq |-> request_seq,
     message |-> <<"Unknown error: ", e>>]

\* The except clause sending nothing.
on_msg_received_unanswered(is_request, command, seq, e) == <<>>

\* DAProtocol.on_msg_received, the except clause: what is sent when
\* process_message raises e for a message; only a request is answered.
on_msg_received(is_request, command, seq, e) ==
    IF is_request THEN <<ErrorResponse(command, seq, e)>> ELSE <<>>

\* Commands of requests whose type no process_message handler is registered for.
UnhandledCommands == {"disconnect", "restart"}

\* The class name of a request type, as type(msg).__name__ gives it.
TypeName(command) ==
    CASE command = "disconnect" -> "DisconnectRequest"
      [] command = "restart" -> "RestartRequest"
      [] OTHER -> "ProtocolMessage"

\* A request of a type without handler arrives: singledispatch falls back to
\* process_message itself, which raises NotImplementedError(type(msg).__name__).
UnhandledRequest(seq, command) ==
    /\ recv_state = "serving"
    /\ sent' = on_msg_received(TRUE, command, seq,
                                <<"NotImplementedError", TypeName(command)>>)
    /\ UNCHANGED <<frameVars, rx, setting, tokenVars, queueVars, sessVars, connVars, bpVars, stepVars, engineVars>>

\* A message that is no request and has no handler arrives: the exception is
\* logged and nothing is sent.
UnhandledEvent ==
    /\ recv_state = "serving"
    /\ sent' = on_msg_received(FALSE, "", 0, <<"NotImplementedError", TypeName("")>>)
    /\ UNCHANGED <<frameVars, rx, setting, tokenVars, queueVars, sessVars, connVars, bpVars, stepVars, engineVars>>

\* process_message for a SetExceptionBreakpointsRequest: the handler raises
\* NotImplementedError().
SetExceptionBreakpointsRequest(seq) ==
    /\ recv_state = "serving"
    /\ sent' = on_msg_received(TRUE, "setExceptionBreakpoints", seq,
                                <<"NotImplementedError">>)
    /\ UNCHANGED <<frameVars, rx, setting, tokenVars, queueVars, sessVars, connVars, bpVars, stepVars, engineVars>>

\* process_message for a SetBreakpointsRequest on source_path with the source
\* breakpoints reqs.
SetBreakpointsRequest(source_path, reqs, source_modified) ==
    /\ recv_state = "serving"
    /\ breakpoint_counter + Len(reqs) - 1 <= MaxBpId
    /\ breakpoints' = KeptBreakpoints(breakpoints, source_path)
                        @@ NewBreakpoints(source_path, reqs, source_modified)
    /\ breakpoint_counter' = breakpoint_counter + Len(reqs)
    /\ sent' = <<SetBreakpointsResponse(BreakpointInfo(source_path, reqs, source_modified))>>
    /\ UNCHANGED <<frameVars, rx, setting, tokenVars, queueVars, sessVars, connVars, source_info, stepVars, engineVars>>

\* process_message for a ConfigurationDoneRequest: the response is sent, then
\* the _configuration_done event is set.  The handler asks for no strategy.
ConfigurationDoneRequest(seq) ==
    /\ recv_state = "serving"
    /\ sent' = <<[type |-> "ConfigurationDoneResponse", request_seq |-> seq]>>
    /\ configuration_done' = TRUE
    /\ UNCHANGED <<strategy, with_pc, da_connected, ended_calls>>
    /\ UNCHANGED <<frameVars, rx, setting, tokenVars, queueVars, connVars, bpVars, stepVars, engineVars>>

----------------------------------------------------------------------------
(* AnsibleDebugger.send and the loop of _recv_task that takes the messages *)
(* from _send_queue and hands them to the transport.                       *)

\* None in the send queue: the signal to leave the send loop.
NoMsg == [type |-> "<None>"]

\* The messages the threads send: a response of the receive thread and
\* events of two execution threads.
OutMessages ==
    {ContinueResponse(TRUE), ThreadEvent("started", 2), ThreadEvent("started", 3)}

\* A queue handing out its newest element first.
QueueGet_lifo(q) == [item |-> q[Len(q)], rest |-> SubSeq(q, 1, Len(q) - 1)]

\* self._send_queue.get() on a queue.Queue: the oldest element, which is
\* removed.
QueueGet(q) == [item |-> Head(q), rest |-> Tail(q)]

\* AnsibleDebugger.send: self._send_queue.put(msg).
send(msg) ==
    /\ send_queue' = Append(send_queue, msg)
    /\ enqueued' = Append(enqueued, msg)

\* Some thread calls AnsibleDebugger.send with a message.
Send(msg) ==
    /\ Len(enqueued) < MaxSent
    /\ send(msg)
    /\ sent' = <<msg>>
    /\ UNCHANGED wire
    /\ UNCHANGED <<frameVars, rx, setting, tokenVars, sessVars, connVars, bpVars, stepVars, engineVars>>

\* DAProtocol.connection_closed: the transport reports that the connection
\* is closed and None is sent.
ConnectionClosed ==
    /\ recv_state = "serving"
    /\ Len(enqueued) < MaxSent
    /\ send(NoMsg)
    /\ sent' = <<NoMsg>>
    /\ UNCHANGED wire
    /\ UNCHANGED <<frameVars, rx, setting, tokenVars, sessVars, connVars, bpVars, stepVars, engineVars>>

\* _recv_task, one round of the send loop: the next message is taken from
\* the queue; None breaks the loop, anything else goes to mp_queue.send.
SendLoopGet ==
    /\ recv_state = "serving"
    /\ send_queue # <<>>
    /\ LET got == QueueGet(send_queue)
       IN /\ send_queue' = got.rest
          /\ IF got.item = NoMsg
             THEN /\ RecvLoopBreak
                  /\ UNCHANGED wire
             ELSE /\ wire' = Append(wire, got.item)
                  /\ UNCHANGED <<connected, recv_state, da_connected, configuration_done,
                                 ended_calls, waiting_threads>>
    /\ sent' = <<>>
    /\ UNCHANGED <<enqueued, strategy, with_pc>>
    /\ UNCHANGED <<frameVars, rx, setting, tokenVars, mode, bpVars, stepping_type, stepping_task, engineVars>>

----------------------------------------------------------------------------
(* AnsibleDebugger.with_strategy: the registration context a play's run    *)
(* (StrategyModule.run) wraps around the execution of the play.            *)

\* with_strategy never finding a strategy registered.
AlreadyRegistered_never == FALSE

\* with_strategy: "if self._strategy", under the _strategy_connected lock.
AlreadyRegistered == strategy # NoStrategy

\* with_strategy, the first block under the lock: a strategy that finds
\* another registered raises, before the try statement; otherwise it is
\* registered.
WithStrategyEnter(s) ==
    /\ with_pc[s] = "out"
    /\ IF AlreadyRegistered
       THEN /\ with_pc' = [with_pc EXCEPT ![s] = "raised"]
            /\ UNCHANGED strategy
       ELSE /\ strategy' = s
            /\ with_pc' = [with_pc EXCEPT ![s] = "entered"]
    /\ UNCHANGED <<da_connected, configuration_done, ended_calls>>
    /\ UNCHANGED <<frameVars, rx, setting, tokenVars, queueVars, connVars, bpVars, stepVars, engineVars, sent>>

\* with_strategy: "if self._da_connected.is_set()" decides whether the
\* context waits for _configuration_done.
WithStrategyTest(s) ==
    /\ with_pc[s] = "entered"
    /\ with_pc' = [with_pc EXCEPT ![s] = IF da_connected THEN "waiting" ELSE "body"]
    /\ UNCHANGED <<strategy, da_connected, configuration_done, ended_calls>>
    /\ UNCHANGED <<frameVars, rx, setting, tokenVars, queueVars, connVars, bpVars, stepVars, engineVars, sent>>

\* The wait returning whether or not the event is set.
configuration_done_wait_unset == TRUE

\* self._configuration_done.wait() returns once the event is set.
configuration_done_wait == configuration_done

\* with_strategy: the wait for _configuration_done returns and the context
\* yields to its body.
WithStrategyWait(s) ==
    /\ with_pc[s] = "waiting"
    /\ configuration_done_wait
    /\ with_pc' = [with_pc EXCEPT ![s] = "body"]
    /\ UNCHANGED <<strategy, da_connected, configuration_done, ended_calls>>
    /\ UNCHANGED <<frameVars, rx, setting, tokenVars, queueVars, connVars, bpVars, stepVars, engineVars, sent>>

\* with_strategy, the finally clause: the body returns or raises and, under
\* the lock, _strategy is set to None.
WithStrategyExit(s, raises) ==
    /\ with_pc[s] = "body"
    /\ strategy' = NoStrategy
    /\ with_pc' = [with_pc EXCEPT ![s] = IF raises THEN "raised" ELSE "out"]
    /\ UNCHANGED <<da_connected, configuration_done, ended_calls>>
    /\ UNCHANGED <<frameVars, rx, setting, tokenVars, queueVars, connVars, bpVars, stepVars, engineVars, sent>>

\* StrategyModule.run is called again, for the next play, after a run that
\* ended with an exception.
RunAgain(s) ==
    /\ with_pc[s] = "raised"
    /\ with_pc' = [with_pc EXCEPT ![s] = "out"]
    /\ UNCHANGED <<strategy, da_connected, configuration_done, ended_calls>>
    /\ UNCHANGED <<frameVars, rx, setting, tokenVars, queueVars, connVars, bpVars, stepVars, engineVars, sent>>

----------------------------------------------------------------------------
(* SocketCancellationToken (_socket_helper.py) and the socket operations   *)
(* it guards.                                                              *)

\* The threads that run guarded socket operations and the threads that call
\* cancel().
OpThreads == {"o1", "o2"}
CancelThreads == {"k1", "k2"}
\* The guarded operations of SocketCancellationToken.
OpKinds == {"accept", "connect", "recv", "send"}
\* A with_cancel block of a caller of its own, whose abort callback itself
\* enters with_cancel on the token.
Guard == "guard"
\* No thread holds SocketCancellationToken._lock.
NoThread == "<None>"

\* A thread outside any guarded operation, and one outside cancel().
NoOp == [kind |-> "", pc |-> "idle", id |-> PyNone, res |-> "", out |-> ""]
NoCancel == [pc |-> "idle", todo |-> <<>>]

\* No frame and no variable exists, no task is running.
InitFrames ==
    /\ stack_frames = [h \in Hosts |-> <<>>]
    /\ stackframes = <<>>
    /\ variables = <<>>
    /\ stackframe_counter = 1
    /\ variable_counter = 1
    /\ running = [h \in Hosts |-> NoNode]
    /\ adding = NoAdding

\* SocketCancellationToken.__init__, and a socket nothing has happened to.
InitToken ==
    /\ cancelled = FALSE
    /\ cancel_funcs = <<>>
    /\ cancel_id = 0
    /\ token_lock = NoThread
    /\ op = [t \in OpThreads |-> NoOp]
    /\ canceller = [k \in CancelThreads |-> NoCancel]
    /\ abort_calls = <<>>
    /\ sock = [peer |-> "open", shut_rd |-> FALSE, shut_wr |-> FALSE]

\* A dict without the key k: dict.pop(k, None).
Without(d, k) == [i \in DOMAIN d \ {k} |-> d[i]]

\* with_cancel never finding the token cancelled.
AlreadyCancelled_never == FALSE

\* with_cancel: "if self._cancelled", under the lock.
AlreadyCancelled == cancelled

\* with_cancel, the block under the lock before the yield: a cancelled token
\* raises CancelledError before anything is registered and before the
\* socket call; otherwise the operation's abort callback is registered under
\* the next id.
WithCancelEnter(t, kind) ==
    /\ op[t].pc = "idle"
    /\ token_lock = NoThread
    /\ cancel_id < MaxCancelId
    /\ IF AlreadyCancelled
       THEN /\ op' = [op EXCEPT ![t] = [NoOp EXCEPT !.kind = kind, !.pc = "done",
                                                    !.out = "cancelled"]]
            /\ UNCHANGED <<cancel_funcs, cancel_id, abort_calls>>
       ELSE /\ op' = [op EXCEPT ![t] = [NoOp EXCEPT !.kind = kind, !.pc = "calling",
                                                    !.id = cancel_id]]
            /\ cancel_funcs' = cancel_funcs @@ (cancel_id :> kind)
            /\ abort_calls' = abort_calls @@ (cancel_id :> 0)
            /\ cancel_id' = cancel_id + 1
    /\ UNCHANGED <<cancelled, token_lock, canceller, sock>>
    /\ UNCHANGED <<frameVars, rx, setting, queueVars, sessVars, connVars, bpVars, stepVars, engineVars, sent>>

\* What the socket call of an operation can return or raise in the state the
\* socket is in: "ok" (accept, connect, sendall return), "data" and "zero"
\* (recv_into returns a count), "timeout" (accept's select finds nothing and
\* TimeoutError is raised), "oserror" (the call raises another OSError).
SocketResults(kind) ==
    CASE kind = "accept" ->
            (IF sock.shut_rd \/ sock.peer = "reset" THEN {"oserror"} ELSE {"ok", "timeout"})
      [] kind = "connect" ->
            (IF sock.shut_rd \/ sock.peer # "open" THEN {"oserror"} ELSE {"ok"})
      [] kind = "recv" ->
            (IF sock.peer = "reset" THEN {"oserror"} ELSE {})
            \cup (IF sock.peer = "open" THEN {"data"} ELSE {})
            \cup (IF sock.peer = "closed" \/ sock.shut_rd THEN {"zero"} ELSE {})
      [] kind = "send" ->
            (IF sock.shut_wr \/ sock.peer # "open" THEN {"oserror"} ELSE {})
            \cup (IF ~sock.shut_wr /\ sock.peer # "reset" THEN {"ok"} ELSE {})
      [] kind = Guard -> {"ok"}

\* The socket call of a guarded operation returns or raises.
SocketReturn(t, res) ==
    /\ op[t].pc = "calling"
    /\ res \in SocketResults(op[t].kind)
    /\ op' = [op EXCEPT ![t].pc = "returned", ![t].res = res]
    /\ UNCHANGED <<cancelled, cancel_funcs, cancel_id, token_lock, canceller, abort_calls, sock>>
    /\ UNCHANGED <<frameVars, rx, setting, queueVars, sessVars, connVars, bpVars, stepVars, engineVars, sent>>

\* sendall, the except clause: "if self._cancel_funcs: raise CancelledError()
\* else: raise".
SendFailure == IF DOMAIN cancel_funcs # {} THEN "cancelled" ELSE "oserror"

\* recv_into handing on what the socket call returned without looking at
\* the _cancelled flag.
RecvOutcome_unchecked(res) ==
    CASE res = "oserror" -> "oserror"
      [] res = "zero" -> "eof"
      [] OTHER -> "ok"

\* recv_into after the socket call: an OSError propagates as it is;
\* otherwise "if self._cancelled: raise CancelledError()", else the count is
\* returned (0 is the end of the stream for recv).
RecvOutcome(res) ==
    CASE res = "oserror" -> "oserror"
      [] cancelled -> "cancelled"
      [] res = "zero" -> "eof"
      [] OTHER -> "ok"

\* accept and connect after the socket call: "except OSError: if
\* self._cancelled: raise CancelledError() else: raise"; TimeoutError is an
\* OSError.
ConnOutcome(res) ==
    CASE res = "ok" -> "ok"
      [] cancelled -> "cancelled"
      [] OTHER -> res

\* sendall after the socket call.
SendOutcome(res) ==
    CASE res = "oserror" -> SendFailure
      [] cancelled -> "cancelled"
      [] OTHER -> "ok"

\* How a guarded operation ends, from what its socket call did and what the
\* token's fields hold when they are read.
Outcome(kind, res) ==
    CASE kind = "recv" -> RecvOutcome(res)
      [] kind = "send" -> SendOutcome(res)
      [] OTHER -> ConnOutcome(res)

\* The operation looks at the result of its socket call and at the token,
\* without the lock, and decides how it ends.
OpHandle(t) ==
    /\ op[t].pc = "returned"
    /\ op' = [op EXCEPT ![t].pc = "leaving", ![t].out = Outcome(op[t].kind, op[t].res)]
    /\ UNCHANGED <<cancelled, cancel_funcs, cancel_id, token_lock, canceller, abort_calls, sock>>
    /\ UNCHANGED <<frameVars, rx, setting, queueVars, sessVars, connVars, bpVars, stepVars, engineVars, sent>>

\* with_cancel, the finally clause: under the lock the operation's entry is
\* removed, if it is still there.
WithCancelExit(t) ==
    /\ op[t].pc = "leaving"
    /\ token_lock = NoThread
    /\ cancel_funcs' = Without(cancel_funcs, op[t].id)
    /\ op' = [op EXCEPT ![t].pc = "done"]
    /\ UNCHANGED <<cancelled, cancel_id, token_lock, canceller, abort_calls, sock>>
    /\ UNCHANGED <<frameVars, rx, setting, queueVars, sessVars, connVars, bpVars, stepVars, engineVars, sent>>

\* The thread is done with the operation and may start the next.
OpAgain(t) ==
    /\ op[t].pc = "done"
    /\ op' = [op EXCEPT ![t] = NoOp]
    /\ UNCHANGED <<cancelled, cancel_funcs, cancel_id, token_lock, canceller, abort_calls, sock>>
    /\ UNCHANGED <<frameVars, rx, setting, queueVars, sessVars, connVars, bpVars, stepVars, engineVars, sent>>

\* cancel: the lock is taken, _cancelled is set and the loop over the
\* registered callbacks starts.
CancelBegin(k) ==
    /\ canceller[k].pc = "idle"
    /\ token_lock = NoThread
    /\ token_lock' = k
    /\ cancelled' = TRUE
    /\ canceller' = [canceller EXCEPT ![k] = [pc |-> "loop",
                                              todo |-> SortedIds(DOMAIN cancel_funcs)]]
    /\ UNCHANGED <<cancel_funcs, cancel_id, op, abort_calls, sock>>
    /\ UNCHANGED <<frameVars, rx, setting, queueVars, sessVars, connVars, bpVars, stepVars, engineVars, sent>>

\* The abort callback of an operation: sock.shutdown(how) with SHUT_RDWR for
\* accept and connect, SHUT_RD for recv_into, SHUT_WR for sendall.
Shutdown(kind) ==
    [sock EXCEPT !.shut_rd = @ \/ kind \in {"accept", "connect", "recv"},
                 !.shut_wr = @ \/ kind \in {"accept", "connect", "send"}]

\* sock.shutdown raises OSError (ENOTCONN) on a connection the peer has reset.
ShutdownRaises == sock.peer = "reset"

\* with_cancel entered by an abort callback that cancel() is calling on
\* thread k: "with self._lock" of a threading.Lock, which is not reentrant,
\* so the thread gets it only when nobody holds it, itself included.  The
\* token is cancelled by then, so the block raises CancelledError, which
\* leaves the callback and cancel().
CallbackWithCancel(k) ==
    /\ canceller[k].pc = "callback"
    /\ token_lock = NoThread
    /\ canceller' = [canceller EXCEPT ![k] = [pc |-> "raised", todo |-> <<>>]]
    /\ UNCHANGED <<cancelled, cancel_funcs, cancel_id, token_lock, op, abort_calls, sock>>
    /\ UNCHANGED <<frameVars, rx, setting, queueVars, sessVars, connVars, bpVars, stepVars, engineVars, sent>>

\* cancel, one round of its loop: the next callback is called.  A callback
\* that raises ends cancel() there: the lock is released by the with
\* statement, the other callbacks are not called and _cancel_funcs is left
\* as it is.  A callback that enters with_cancel goes for the lock.
CancelCall(k) ==
    /\ canceller[k].pc = "loop"
    /\ canceller[k].todo # <<>>
    /\ LET id == Head(canceller[k].todo)
       IN IF cancel_funcs[id] = Guard
          THEN /\ canceller' = [canceller EXCEPT ![k].pc = "callback", ![k].todo = Tail(@)]
               /\ abort_calls' = [abort_calls EXCEPT ![id] = @ + 1]
               /\ UNCHANGED <<token_lock, sock>>
          ELSE IF ShutdownRaises
          THEN /\ canceller' = [canceller EXCEPT ![k] = [pc |-> "raised", todo |-> <<>>]]
               /\ abort_calls' = [abort_calls EXCEPT ![id] = @ + 1]
               /\ token_lock' = NoThread
               /\ UNCHANGED sock
          ELSE /\ canceller' = [canceller EXCEPT ![k].todo = Tail(@)]
               /\ abort_calls' = [abort_calls EXCEPT ![id] = @ + 1]
               /\ sock' = Shutdown(cancel_funcs[id])
               /\ UNCHANGED token_lock
    /\ UNCHANGED <<cancelled, cancel_funcs, cancel_id, op>>
    /\ UNCHANGED <<frameVars, rx, setting, queueVars, sessVars, connVars, bpVars, stepVars, engineVars, sent>>

\* cancel, after the loop: _cancel_funcs is set to an empty dict and the lock
\* is released.
CancelEnd(k) ==
    /\ canceller[k].pc = "loop"
    /\ canceller[k].todo = <<>>
    /\ cancel_funcs' = <<>>
    /\ token_lock' = NoThread
    /\ canceller' = [canceller EXCEPT ![k].pc = "done"]
    /\ UNCHANGED <<cancelled, cancel_id, op, abort_calls, sock>>
    /\ UNCHANGED <<frameVars, rx, setting, queueVars, sessVars, connVars, bpVars, stepVars, engineVars, sent>>

\* The peer closes the connection, or resets it.
PeerEnds(how) ==
    /\ sock.peer = "open"
    /\ sock' = [sock EXCEPT !.peer = how]
    /\ UNCHANGED <<cancelled, cancel_funcs, cancel_id, token_lock, op, canceller, abort_calls>>
    /\ UNCHANGED <<frameVars, rx, setting, queueVars, sessVars, connVars, bpVars, stepVars, engineVars, sent>>

\* process_message for a SetBreakpointsRequest, its first statements:
\* "source_info = self._source_info.get(source_path, None)".  The handler
\* holds no lock, so a learn call of the execution thread can come between
\* this and the rest.
SetBreakpointsRead(source_path, reqs) ==
    /\ recv_state = "serving"
    /\ setting = NoSetting
    /\ breakpoint_counter + Len(reqs) - 1 <= MaxBpId
    /\ setting' = [path |-> source_path, reqs |-> reqs,
                   loaded |-> LinesOf(source_info, source_path) # <<>>]
    /\ sent' = <<>>
    /\ UNCHANGED <<frameVars, rx, tokenVars, queueVars, sessVars, connVars, bpVars, stepVars,
                   engineVars>>

\* The rest of the handler: the path's breakpoints are cleared, each source
\* breakpoint is resolved against the local source_info and stored, and the
\* response is sent.
SetBreakpointsStore ==
    /\ setting # NoSetting
    /\ LET n == Len(setting.reqs)
           info == LocalBreakpointInfo
       IN /\ breakpoints' = KeptBreakpoints(breakpoints, setting.path)
                    @@ [i \in breakpoint_counter..(breakpoint_counter + n - 1) |->
                            [id |-> i,
                             path |-> setting.path,
                             source_breakpoint |-> setting.reqs[i - breakpoint_counter + 1],
                             breakpoint |-> info[i - breakpoint_counter + 1]]]
          /\ breakpoint_counter' = breakpoint_counter + n
          /\ sent' = <<SetBreakpointsResponse(info)>>
    /\ setting' = NoSetting
    /\ UNCHANGED <<frameVars, rx, tokenVars, queueVars, sessVars, connVars, source_info,
                   stepVars, engineVars>>

----------------------------------------------------------------------------
(* Stack frames and variables: process_task, process_task_result and the   *)
(* requests that add variables.  None of them takes a lock.                *)

\* "for variable_id in last_frame.variables: del self.variables[variable_id]"
WithoutAll(d, ks) == [i \in DOMAIN d \ ks |-> d[i]]

\* process_task: "if parent_task and last_frame.task and
\* last_frame.task._uuid != parent_task._uuid".
RetiresTop(top_task, parent_task) ==
    parent_task # NoNode /\ top_task # NoNode /\ Uuid(top_task) # Uuid(parent_task)

\* process_task from its start to the push of the new frame: the host's
\* thread is looked up or added, the top frame of the thread is retired with
\* its variables if its task is not the parent task of the new task, and a
\* frame with the next id is put on top.
ProcessTaskFrames(h) ==
    /\ pc[h] = "queue"
    /\ running[h] = NoNode
    /\ LET task == Order[pos[h]]
           new == threads[h] = 0
           tid == IF new THEN thread_counter ELSE threads[h]
           stack == stack_frames[h]
           parent_task == Parent[Parent[task]]
           pop == stack # <<>> /\ RetiresTop(stackframes[Head(stack)].task, parent_task)
           kept == IF pop THEN Tail(stack) ELSE stack
           gone == IF pop THEN {Head(stack)} ELSE {}
           sfid == stackframe_counter
       IN /\ threads' = [threads EXCEPT ![h] = tid]
          /\ thread_counter' = IF new THEN thread_counter + 1 ELSE thread_counter
          /\ sent' = IF new THEN <<ThreadEvent("started", tid)>> ELSE <<>>
          /\ variables' = IF pop
                          THEN WithoutAll(variables, Range(stackframes[Head(stack)].variables))
                          ELSE variables
          /\ stackframes' = WithoutAll(stackframes, gone)
                                @@ (sfid :> [task |-> task, variables |-> <<>>])
          /\ stackframe_counter' = stackframe_counter + 1
          /\ stack_frames' = [stack_frames EXCEPT ![h] = <<sfid>> \o kept]
          /\ running' = [running EXCEPT ![h] = task]
    /\ UNCHANGED <<variable_counter, adding, pc, pos, localVars>>
    /\ UNCHANGED <<rx, setting, tokenVars, queueVars, sessVars, connVars, bpVars, stepVars>>

\* process_task_result: "if task.action not in C._ACTION_ALL_INCLUDES".
PopsOnResult(task) == ~IsInclude(task)

\* process_task_result for the task the host has run: unless the task is an
\* include, the top frame of the thread is popped and its variables are
\* deleted.
ProcessTaskResult(h) ==
    /\ running[h] # NoNode
    /\ pc[h] \in {"queue", "load", "done"}
    /\ pc[h] = "queue" => Order[pos[h]] # running[h]
    /\ LET stack == stack_frames[h]
           sfid == Head(stack)
       IN IF PopsOnResult(running[h])
          THEN /\ stack_frames' = [stack_frames EXCEPT ![h] = Tail(stack)]
               /\ stackframes' = WithoutAll(stackframes, {sfid})
               /\ variables' = WithoutAll(variables, Range(stackframes[sfid].variables))
          ELSE UNCHANGED <<stack_frames, stackframes, variables>>
    /\ running' = [running EXCEPT ![h] = NoNode]
    /\ sent' = <<>>
    /\ UNCHANGED <<stackframe_counter, variable_counter, adding, engineVars>>
    /\ UNCHANGED <<rx, setting, tokenVars, queueVars, sessVars, connVars, bpVars, stepVars>>

\* A request that adds variables has looked up its frame: it goes on to add
\* todo variables to it, or answers at once if there is none to add.
StartsAdding(command, sf, todo) ==
    /\ variable_counter + todo - 1 <= MaxVarId
    /\ adding' = IF todo = 0 THEN NoAdding
                 ELSE [command |-> command, sf |-> sf, todo |-> todo]
    /\ sent' = IF todo = 0 THEN <<[type |-> "Response", command |-> command]>> ELSE <<>>

\* process_message for a ScopesRequest, get_scopes up to its first
\* add_variable: "sf = self.stackframes[request.frame_id]", a KeyError for an
\* id that is no key; four variables are to be added.
GetScopes(frame_id) ==
    /\ recv_state = "serving"
    /\ _get_strategy
    /\ adding = NoAdding
    /\ IF frame_id \in DOMAIN stackframes
       THEN StartsAdding("scopes", frame_id, 4)
       ELSE /\ sent' = on_msg_received(TRUE, "scopes", 0, <<"KeyError", frame_id>>)
            /\ UNCHANGED adding
    /\ UNCHANGED <<stack_frames, stackframes, variables, stackframe_counter,
                   variable_counter, running>>
    /\ UNCHANGED <<rx, setting, tokenVars, queueVars, sessVars, connVars, bpVars, stepVars, engineVars>>

\* process_message for a VariablesRequest, get_variables up to its first
\* add_collection_variable: "variable = self.variables[request.
\* variables_reference]"; children of the values the getter yields are
\* mappings or sequences, each to be wrapped in a variable of
\* variable.stackframe.
GetVariables(ref, children) ==
    /\ recv_state = "serving"
    /\ _get_strategy
    /\ adding = NoAdding
    /\ IF ref \in DOMAIN variables
       THEN StartsAdding("variables", variables[ref].stackframe, children)
       ELSE /\ sent' = on_msg_received(TRUE, "variables", 0, <<"KeyError", ref>>)
            /\ UNCHANGED adding
    /\ UNCHANGED <<stack_frames, stackframes, variables, stackframe_counter,
                   variable_counter, running>>
    /\ UNCHANGED <<rx, setting, tokenVars, queueVars, sessVars, connVars, bpVars, stepVars, engineVars>>

\* process_message for a SetVariableRequest, set_variable up to its
\* add_collection_variable: the variable is looked up and its setter called;
\* a new value that is a mapping or a sequence is wrapped in a variable of
\* variable.stackframe.
SetVariable(ref, container) ==
    /\ recv_state = "serving"
    /\ _get_strategy
    /\ adding = NoAdding
    /\ IF ref \in DOMAIN variables
       THEN StartsAdding("setVariable", variables[ref].stackframe, IF container THEN 1 ELSE 0)
       ELSE /\ sent' = on_msg_received(TRUE, "setVariable", 0, <<"KeyError", ref>>)
            /\ UNCHANGED adding
    /\ UNCHANGED <<stack_frames, stackframes, variables, stackframe_counter,
                   variable_counter, running>>
    /\ UNCHANGED <<rx, setting, tokenVars, queueVars, sessVars, connVars, bpVars, stepVars, engineVars>>

\* add_variable, called by the request in progress: the variable gets the
\* next id, is stored in self.variables with the frame object the request
\* holds, and its id is appended to that object's list, whether or not
\* self.stackframes still holds the object.  After its last variable the
\* request sends its response.
AddVariable ==
    /\ adding.todo > 0
    /\ LET var_id == variable_counter
           sf == adding.sf
       IN /\ variable_counter' = variable_counter + 1
          /\ variables' = variables @@ (var_id :> [stackframe |-> sf])
          /\ stackframes' = IF sf \in DOMAIN stackframes
                            THEN [stackframes EXCEPT ![sf].variables = Append(@, var_id)]
                            ELSE stackframes
    /\ adding' = IF adding.todo = 1 THEN NoAdding ELSE [adding EXCEPT !.todo = @ - 1]
    /\ sent' = IF adding.todo = 1
               THEN <<[type |-> "Response", command |-> adding.command]>>
               ELSE <<>>
    /\ UNCHANGED <<stack_frames, stackframe_counter, running>>
    /\ UNCHANGED <<rx, setting, tokenVars, queueVars, sessVars, connVars, bpVars, stepVars, engineVars>>

----------------------------------------------------------------------------
(* SocketHelper.recv, on a token that is not cancelled. *)

\* The values of a byte.
Bytes == {0, 1}

\* No recv call is running.  stream holds the bytes the peer has sent so far
\* and offset how many of them the socket has handed out; start is offset
\* when the call began; buffer, read and data_read are the locals of recv
\* (data_read is PyNone before the first recv_into) and data what it returned.
NoRecv ==
    [pc |-> "idle", n |-> 0, read |-> 0, buffer |-> <<>>, data_read |-> PyNone,
     data |-> <<>>, stream |-> <<>>, offset |-> 0, start |-> 0]

\* The peer sends one more byte.
PeerSends(b) ==
    /\ sock.peer = "open"
    /\ Len(rx.stream) < MaxStream
    /\ rx' = [rx EXCEPT !.stream = Append(@, b)]
    /\ UNCHANGED <<frameVars, setting, tokenVars, queueVars, sessVars, connVars, bpVars, stepVars,
                   engineVars, sent>>

\* recv up to its loop: "buffer = bytearray(n)", "read = 0".
RecvCall(n) ==
    /\ rx.pc = "idle"
    /\ ~cancelled
    /\ rx' = [rx EXCEPT !.pc = "loop", !.n = n, !.read = 0, !.buffer = [i \in 1..n |-> 0],
                        !.data_read = PyNone, !.data = <<>>, !.start = rx.offset]
    /\ UNCHANGED <<frameVars, setting, tokenVars, queueVars, sessVars, connVars, bpVars, stepVars,
                   engineVars, sent>>

\* What sock.recv_into(view, want) can return: with bytes of the peer at
\* hand, any number of them from one up to want; 0 once the peer has
\* closed and all its bytes are handed out; otherwise the call blocks.
RecvIntoCounts(want) ==
    IF rx.offset < Len(rx.stream)
    THEN 1..Min(want, Len(rx.stream) - rx.offset)
    ELSE IF sock.peer = "closed" THEN {0} ELSE {}

\* recv's loop going on after the first recv_into only.
RecvLoopGoesOn_one_read == rx.data_read = PyNone /\ rx.read < rx.n

\* recv: "while read < n" at the top of the loop, "if data_read == 0: break"
\* at its end.
RecvLoopGoesOn == rx.read < rx.n /\ rx.data_read # 0

\* recv, one round of its loop: recv_into fills view[read:] with up to
\* n - read bytes and returns their number, which is added to read.
RecvInto(c) ==
    /\ rx.pc = "loop"
    /\ RecvLoopGoesOn
    /\ c \in RecvIntoCounts(rx.n - rx.read)
    /\ RecvOutcome(IF c = 0 THEN "zero" ELSE "data") # "cancelled"
    /\ rx' = [rx EXCEPT !.buffer = [i \in 1..rx.n |->
                                        IF i > rx.read /\ i <= rx.read + c
                                        THEN rx.stream[rx.offset + (i - rx.read)]
                                        ELSE rx.buffer[i]],
                        !.read = @ + c,
                        !.data_read = c,
                        !.offset = @ + c]
    /\ UNCHANGED <<frameVars, setting, tokenVars, queueVars, sessVars, connVars, bpVars, stepVars,
                   engineVars, sent>>

\* recv after its loop: "data = bytes(buffer[:read])", "return data".
RecvReturn ==
    /\ rx.pc = "loop"
    /\ ~RecvLoopGoesOn
    /\ rx' = [rx EXCEPT !.pc = "done", !.data = SubSeq(rx.buffer, 1, rx.read)]
    /\ UNCHANGED <<frameVars, setting, tokenVars, queueVars, sessVars, connVars, bpVars, stepVars,
                   engineVars, sent>>

\* The caller is done with the bytes and may call recv again.
RecvAgain ==
    /\ rx.pc = "done"
    /\ rx' = [rx EXCEPT !.pc = "idle"]
    /\ UNCHANGED <<frameVars, setting, tokenVars, queueVars, sessVars, connVars, bpVars, stepVars,
                   engineVars, sent>>

----------------------------------------------------------------------------
(* The specifications. *)

Init ==
    /\ connected = FALSE
    /\ recv_state = "connecting"
    /\ mode \in {"connect", "listen"}
    /\ breakpoints = <<>>
    /\ breakpoint_counter = 1
    /\ source_info = [p \in Paths |-> <<>>]
    /\ sent = <<>>
    /\ threads = [h \in Hosts |-> 0]
    /\ thread_counter = 2
    /\ stepping_type = [h \in Hosts |-> NoStep]
    /\ stepping_task = [h \in Hosts |-> NoNode]
    /\ waiting_threads = <<>>
    /\ pc = [h \in Hosts |-> "queue"]
    /\ pos = [h \in Hosts |-> 1]
    /\ learn = NoLearn
    /\ alloc = [h \in Hosts |-> NoAlloc]
    /\ strategy = "s1"
    /\ with_pc = [s \in Strategies |-> IF s = "s1" THEN "body" ELSE "out"]
    /\ da_connected = FALSE
    /\ configuration_done = FALSE
    /\ ended_calls = [s \in Strategies |-> 0]
    /\ send_queue = <<>>
    /\ wire = <<>>
    /\ enqueued = <<>>
    /\ InitToken
    /\ rx = NoRecv
    /\ InitFrames
    /\ setting = NoSetting

\* The breakpoint lists of the requests of the registry's specification.
RequestLists ==
    UNION {[1..n -> [line : 0..MaxLine, condition : {""}]] : n \in {0, 1, 2}}

\* The paths the requests of the registry's specification name, and the one
\* its learn calls name (an included file; the playbook itself is never learned).
RegistryPaths == {"main.yml", "inc.yml"}
LearnedPaths == {"inc.yml"}

\* The lines learn calls name: the lines of a file are 1 based.
LearnLines == 1..MaxLine

\* The requests a client sends while the play runs: one breakpoint on a task
\* line of the playbook, or none.
PlayRequests ==
    {<<>>} \cup {<<[line |-> 1, condition |-> c]>> : c \in Conditions}
           \cup {<<[line |-> 2, condition |-> ""]>>}

\* The files those requests name.
PlayPaths == {"main.yml", "inc.yml"}

\* The steps of the receive thread and of the execution threads of the hosts
\* hs, the client naming the thread ids tids in its requests.
PlayNext(hs, tids) ==
    \/ RecvConnect
    \/ RecvClosed
    \/ RecvCancelled
    \/ \E p \in PlayPaths, reqs \in PlayRequests : SetBreakpointsRequest(p, reqs, FALSE)
    \/ \E t \in tids, single \in BOOLEAN : ContinueRequest(t, single)
    \/ \E t \in tids : StepInRequest(t)
    \/ \E t \in tids : StepOutRequest(t)
    \/ \E t \in tids : NextRequest(t)
    \/ \E h \in hs : ProcessTask(h)
    \/ \E h \in hs : WaitReturn(h)
    \/ \E h \in hs : LoadIncludedFile(h)

\* One host runs the play.
Next == PlayNext({"h1"}, {2})

Spec == Init /\ [][Next]_vars

\* Every host of the play runs it, each on its own execution thread; the
\* client sets or clears a breakpoint on the first line of the playbook and
\* sends continue and next requests.
NextHosts ==
    \/ RecvConnect
    \/ RecvClosed
    \/ RecvCancelled
    \/ \E reqs \in {<<>>, <<[line |-> 1, condition |-> ""]>>} :
            SetBreakpointsRequest("main.yml", reqs, FALSE)
    \/ \E t \in HostTids, single \in BOOLEAN : ContinueRequest(t, single)
    \/ \E t \in HostTids : NextRequest(t)
    \/ \E h \in Hosts : ProcessTask(h)
    \/ \E h \in Hosts : WaitReturn(h)
    \/ \E h \in Hosts : LoadIncludedFile(h)

SpecHosts == Init /\ [][NextHosts]_vars

\* The registry alone, while an adapter is connected: requests (receive
\* thread) and learn calls (execution thread) in any order.
InitRegistry ==
    /\ connected = TRUE
    /\ recv_state = "serving"
    /\ mode = "listen"
    /\ breakpoints = <<>>
    /\ breakpoint_counter = 1
    /\ source_info = [p \in Paths |-> <<>>]
    /\ sent = <<>>
    /\ threads = [h \in Hosts |-> 0]
    /\ thread_counter = 2
    /\ stepping_type = [h \in Hosts |-> NoStep]
    /\ stepping_task = [h \in Hosts |-> NoNode]
    /\ waiting_threads = <<>>
    /\ pc = [h \in Hosts |-> "queue"]
    /\ pos = [h \in Hosts |-> 1]
    /\ learn = NoLearn
    /\ alloc = [h \in Hosts |-> NoAlloc]
    /\ strategy = "s1"
    /\ with_pc = [s \in Strategies |-> IF s = "s1" THEN "body" ELSE "out"]
    /\ da_connected = TRUE
    /\ configuration_done = FALSE
    /\ ended_calls = [s \in Strategies |-> 0]
    /\ send_queue = <<>>
    /\ wire = <<>>
    /\ enqueued = <<>>
    /\ InitToken
    /\ rx = NoRecv
    /\ InitFrames
    /\ setting = NoSetting

NextRegistry ==
    \/ \E p \in RegistryPaths, reqs \in RequestLists, m \in BOOLEAN :
            SetBreakpointsRequest(p, reqs, m)
    \/ \E p \in LearnedPaths, l \in LearnLines, ty \in {0, 1} :
            RegisterPathBreakpoint(p, l, ty)

SpecRegistry == InitRegistry /\ [][NextRegistry]_vars

\* The allocation of ids: the hosts' execution threads reach add_thread, each
\* next_thread_id call taken step by step, while the receive thread hands
\* out breakpoint ids.
NextIds ==
    \/ RecvConnect
    \/ RecvClosed
    \/ RecvCancelled
    \/ \E reqs \in {<<>>, <<[line |-> 1, condition |-> ""]>>} :
            SetBreakpointsRequest("main.yml", reqs, FALSE)
    \/ \E h \in Hosts : NextThreadIdRead(h)
    \/ \E h \in Hosts : NextThreadIdLoad(h)
    \/ \E h \in Hosts : NextThreadIdStore(h)

SpecIds == Init /\ [][NextIds]_vars

\* The dispatch of requests: requests that fail and requests that are served.
NextDispatch ==
    \/ RecvConnect
    \/ RecvClosed
    \/ RecvCancelled
    \/ \E seq \in 1..MaxSeq, c \in UnhandledCommands : UnhandledRequest(seq, c)
    \/ UnhandledEvent
    \/ \E seq \in 1..MaxSeq : SetExceptionBreakpointsRequest(seq)
    \/ \E t \in HostTids, single \in BOOLEAN : ContinueRequest(t, single)
    \/ \E t \in HostTids : NextRequest(t)

SpecDispatch == Init /\ [][NextDispatch]_vars

\* The registry with register_path_breakpoint taken step by step on the
\* execution thread, the requests of the receive thread coming in between.
NextRace ==
    \/ \E p \in RegistryPaths, reqs \in RequestLists, m \in BOOLEAN :
            SetBreakpointsRequest(p, reqs, m)
    \/ \E p \in LearnedPaths, l \in LearnLines, ty \in {0, 1} :
            LearnBegin(p, l, ty)
    \/ LearnStep

SpecRace == InitRegistry /\ [][NextRace]_vars

\* The registry with the SetBreakpointsRequest handler of the receive thread
\* and register_path_breakpoint of the execution thread both taken step by
\* step.
NextStore ==
    \/ \E p \in RegistryPaths, reqs \in RequestLists : SetBreakpointsRead(p, reqs)
    \/ SetBreakpointsStore
    \/ \E p \in LearnedPaths, l \in LearnLines, ty \in {0, 1} :
            LearnBegin(p, l, ty)
    \/ LearnStep

SpecStore == InitRegistry /\ [][NextStore]_vars

\* A debugger on which no strategy is registered yet.
InitSession ==
    /\ connected = FALSE
    /\ recv_state = "connecting"
    /\ mode \in {"connect", "listen"}
    /\ breakpoints = <<>>
    /\ breakpoint_counter = 1
    /\ source_info = [p \in Paths |-> <<>>]
    /\ sent = <<>>
    /\ threads = [h \in Hosts |-> 0]
    /\ thread_counter = 2
    /\ stepping_type = [h \in Hosts |-> NoStep]
    /\ stepping_task = [h \in Hosts |-> NoNode]
    /\ waiting_threads = <<>>
    /\ pc = [h \in Hosts |-> "queue"]
    /\ pos = [h \in Hosts |-> 1]
    /\ learn = NoLearn
    /\ alloc = [h \in Hosts |-> NoAlloc]
    /\ strategy = NoStrategy
    /\ with_pc = [s \in Strategies |-> "out"]
    /\ da_connected = FALSE
    /\ configuration_done = FALSE
    /\ ended_calls = [s \in Strategies |-> 0]
    /\ send_queue = <<>>
    /\ wire = <<>>
    /\ enqueued = <<>>
    /\ InitToken
    /\ rx = NoRecv
    /\ InitFrames
    /\ setting = NoSetting

\* The session: the receive thread with its requests, and the runs of the
\* plays registering and unregistering their strategies.
NextSession ==
    \/ RecvConnect
    \/ RecvClosed
    \/ RecvCancelled
    \/ RecvFault
    \/ \E seq \in 1..MaxSeq : ConfigurationDoneRequest(seq)
    \/ \E t \in HostTids, single \in BOOLEAN : ContinueRequest(t, single)
    \/ \E t \in HostTids : NextRequest(t)
    \/ \E seq \in 1..MaxSeq : SetExceptionBreakpointsRequest(seq)
    \/ \E s \in Strategies : WithStrategyEnter(s)
    \/ \E s \in Strategies : WithStrategyTest(s)
    \/ \E s \in Strategies : WithStrategyWait(s)
    \/ \E s \in Strategies, raises \in BOOLEAN : WithStrategyExit(s, raises)
    \/ \E s \in Strategies : RunAgain(s)

SpecSession == InitSession /\ [][NextSession]_vars

\* The send queue: threads sending messages, the transport reporting the
\* end of the connection, and the send loop of the receive task.
NextQueue ==
    \/ RecvConnect
    \/ RecvCancelled
    \/ \E msg \in OutMessages : Send(msg)
    \/ ConnectionClosed
    \/ SendLoopGet

SpecQueue == InitSession /\ [][NextQueue]_vars

\* The token: threads running guarded socket operations, threads calling
\* cancel(), and the peer.
NextToken ==
    \/ \E t \in OpThreads, kind \in OpKinds : WithCancelEnter(t, kind)
    \/ \E t \in OpThreads, res \in {"ok", "data", "zero", "timeout", "oserror"} :
            SocketReturn(t, res)
    \/ \E t \in OpThreads : OpHandle(t)
    \/ \E t \in OpThreads : WithCancelExit(t)
    \/ \E t \in OpThreads : OpAgain(t)
    \/ \E k \in CancelThreads : CancelBegin(k)
    \/ \E k \in CancelThreads : CancelCall(k)
    \/ \E k \in CancelThreads : CancelEnd(k)
    \/ \E how \in {"closed", "reset"} : PeerEnds(how)

SpecToken == InitSession /\ [][NextToken]_vars

\* The token with callers whose abort callbacks enter with_cancel themselves,
\* next to a guarded recv_into.
NextReentry ==
    \/ \E t \in OpThreads, kind \in {Guard, "recv"} : WithCancelEnter(t, kind)
    \/ \E t \in OpThreads, res \in {"ok", "data", "zero", "oserror"} : SocketReturn(t, res)
    \/ \E t \in OpThreads : OpHandle(t)
    \/ \E t \in OpThreads : WithCancelExit(t)
    \/ \E t \in OpThreads : OpAgain(t)
    \/ \E k \in CancelThreads : CancelBegin(k)
    \/ \E k \in CancelThreads : CancelCall(k)
    \/ \E k \in CancelThreads : CancelEnd(k)
    \/ \E how \in {"closed", "reset"} : PeerEnds(how)

SpecReentry == InitSession /\ [][NextReentry]_vars

\* A thread calling SocketHelper.recv while the peer sends bytes and closes.
NextRecv ==
    \/ \E b \in Bytes : PeerSends(b)
    \/ PeerEnds("closed")
    \/ \E n \in 0..MaxRecv : RecvCall(n)
    \/ \E c \in 0..MaxRecv : RecvInto(c)
    \/ RecvReturn
    \/ RecvAgain

SpecRecv == InitSession /\ [][NextRecv]_vars

\* One host runs the play, each task from process_task to
\* process_task_result, while the client asks for scopes and variables and
\* sets variables.
NextFrames ==
    \/ RecvConnect
    \/ ProcessTaskFrames("h1")
    \/ (pc["h1"] = "queue" /\ running["h1"] = Order[pos["h1"]] /\ ProcessTask("h1"))
    \/ ProcessTaskResult("h1")
    \/ (running["h1"] = NoNode /\ LoadIncludedFile("h1"))
    \/ \E frame_id \in 1..MaxFrameId : GetScopes(frame_id)
    \/ \E ref \in 1..MaxVarId, children \in {0, 1} : GetVariables(ref, children)
    \/ \E ref \in 1..MaxVarId, container \in BOOLEAN : SetVariable(ref, container)
    \/ AddVariable

SpecFrames == Init /\ [][NextFrames]_vars

----------------------------------------------------------------------------
(* Properties. *)

\* The host's thread is blocked in process_task's wait and no command for it
\* is recorded: it is Stopped and stays so until a command names it.
Blocked(h) == pc[h] = "waiting" /\ threads[h] \notin DOMAIN waiting_threads

\* The host's thread has just sent a Stopped event with this reason and waits.
StoppedWith(h, reason) ==
    /\ pc[h] = "waiting"
    /\ \E m \in Range(sent) :
            m.type = "StoppedEvent" /\ m.thread_id = threads[h] /\ m.reason = reason

\* The chain of _parent links above an object, nearest first.
RECURSIVE AncestorChain(_)
AncestorChain(n) ==
    IF Parent[n] = NoNode THEN <<>> ELSE <<Parent[n]>> \o AncestorChain(Parent[n])

\* The nearest enclosing object that is a task, NoNode when there is none.
EnclosingTask(n) ==
    LET c == AncestorChain(n)
        at == {k \in 1..Len(c) : c[k] \in TaskNodes}
    IN IF at = {} THEN NoNode ELSE c[CHOOSE k \in at : \A j \in at : k <= j]

\* C1: when the receive task ends the session (the connection is lost in
\* connect mode, or the token is cancelled) and calls ended(), every thread
\* blocked in process_task's wait is released: the condition it waits for
\* holds, so its wait returns with no further client command.
C1_EndedReleasesBlockedThreads ==
    [][(recv_state # "ended" /\ recv_state' = "ended") =>
            \A h \in Hosts : pc[h] = "waiting" => ~Blocked(h)'
      ]_vars

\* C2: a continue request that is not restricted to one thread is answered
\* with all_threads_continued = true and resumes every Stopped thread: after
\* it no thread is left blocked in process_task's wait.
C2_PlainContinueResumesEveryStoppedThread ==
    [][\A t \in HostTids :
        ContinueRequest(t, FALSE) =>
            /\ sent' = <<[type |-> "ContinueResponse", all_threads_continued |-> TRUE]>>
            /\ \A h \in Hosts : pc[h] = "waiting" => ~Blocked(h)'
      ]_vars

\* C3: a continue request for the single thread t is answered with
\* all_threads_continued = false, records a plain continue for t (so t's wait
\* ends), and leaves the record of every other thread as it was: the other
\* Stopped threads stay blocked.
C3_SingleContinueResumesOnlyThatThread ==
    [][\A t \in HostTids :
        ContinueRequest(t, TRUE) =>
            /\ sent' = <<[type |-> "ContinueResponse", all_threads_continued |-> FALSE]>>
            /\ t \in DOMAIN waiting_threads' /\ waiting_threads'[t] = NoStep
            /\ \A h \in Hosts : (threads[h] = t /\ pc[h] = "waiting") => ~Blocked(h)'
            /\ \A h \in Hosts : (Blocked(h) /\ threads[h] # t) => Blocked(h)'
            /\ \A u \in HostTids \ {t} :
                    /\ (u \in DOMAIN waiting_threads') = (u \in DOMAIN waiting_threads)
                    /\ u \in DOMAIN waiting_threads => waiting_threads'[u] = waiting_threads[u]
      ]_vars

\* C3 witness: both hosts' threads were Stopped, a single-thread continue has
\* been answered, one thread can resume and the other is still blocked.
C3_Witness ==
    /\ sent = <<[type |-> "ContinueResponse", all_threads_continued |-> FALSE]>>
    /\ pc["h1"] = "waiting" /\ pc["h2"] = "waiting"
    /\ threads["h1"] \in DOMAIN waiting_threads
    /\ Blocked("h2")

\* C4: a thread stops with reason "breakpoint" at a task only if a stored
\* breakpoint covers the task's path and line and is resolved as verified.
C4_OnlyVerifiedBreakpointsStop ==
    [][\A h \in Hosts :
        (ProcessTask(h) /\ StoppedWith(h, "breakpoint")') =>
            \E i \in DOMAIN breakpoints :
                /\ Covers(breakpoints[i], PathOf(Order[pos[h]]), LineOf(Order[pos[h]]))
                /\ breakpoints[i].breakpoint.verified
      ]_vars

\* C5: with step-over pending and stepping task S, the thread stops with
\* reason "step" at a task T exactly when the nearest enclosing task of T is
\* the nearest enclosing task of S (none on both sides counts as equal).
C5_StepOverStopsAtSameEnclosingTask ==
    [][\A h \in Hosts :
        (ProcessTask(h) /\ stepping_type[h] = "over" /\ stepping_task[h] # NoNode) =>
            (StoppedWith(h, "step")'
                <=> EnclosingTask(Order[pos[h]]) = EnclosingTask(stepping_task[h]))
      ]_vars

\* C5 witness: step-over was asked for at the include inc2, the thread ran
\* the task nested in it without stopping and is stopped at inc2's sibling c3.
C5_Witness ==
    /\ StoppedWith("h1", "step")
    /\ Order[pos["h1"]] = "c3"
    /\ stepping_type["h1"] = "over"
    /\ stepping_task["h1"] = "inc2"

\* C6: a step-in command taken at an include keeps the mode "in", and the
\* thread stops with reason "step" at the next task it enters, the first task
\* nested in that include; taken at any other task a, the mode becomes "over"
\* with a as stepping task, and the thread stops with reason "step" at a's
\* next sibling.
C6_StepInStopsAtNextTaskOrSibling ==
    [][\A h \in Hosts :
        /\ (WaitReturn(h) /\ waiting_threads[threads[h]] = "in") =>
                /\ stepping_task'[h] = Order[pos[h]]
                /\ stepping_type'[h] = IF Order[pos[h]] \in {"inc", "inc2"} THEN "in" ELSE "over"
        /\ (ProcessTask(h) /\ stepping_type[h] = "in") =>
                /\ StoppedWith(h, "step")'
                /\ Parent[Parent[Order[pos[h]]]] = stepping_task[h]
        /\ (/\ ProcessTask(h)
            /\ stepping_type[h] = "over"
            /\ stepping_task[h] \in TaskNodes \ {"inc", "inc2"}
            /\ Parent[Order[pos[h]]] = Parent[stepping_task[h]]) =>
                StoppedWith(h, "step")'
      ]_vars

\* C6 witness: step-in was asked for at the include inc and the thread is
\* stopped, for the step, at c1, the first task of the included file.
C6_Witness ==
    /\ StoppedWith("h1", "step")
    /\ Order[pos["h1"]] = "c1"
    /\ stepping_type["h1"] = "in"
    /\ stepping_task["h1"] = "inc"

\* C7: with step-out pending and stepping task S, the thread does not stop at
\* a task that has S among its ancestors, and stops with reason "step" at a
\* task that has not: so it stops at the first such task it enters.
C7_StepOutStopsOutsideSteppingTask ==
    [][\A h \in Hosts :
        (ProcessTask(h) /\ stepping_type[h] = "out" /\ stepping_task[h] # NoNode) =>
            IF stepping_task[h] \in Range(AncestorChain(Order[pos[h]]))
            THEN pc'[h] # "waiting"
            ELSE StoppedWith(h, "step")'
      ]_vars

\* C7 witness: step-out was asked for inside the include inc2 and the thread
\* is stopped, for the step, at c3, the first task outside inc2.
C7_Witness ==
    /\ StoppedWith("h1", "step")
    /\ Order[pos["h1"]] = "c3"
    /\ stepping_type["h1"] = "out"
    /\ stepping_task["h1"] = "inc2"

\* C8: in step-out mode a thread never stops for a breakpoint: when it stops,
\* the step-out predicate matches and the reason is "step".
C8_NoBreakpointStopWhileSteppingOut ==
    [][\A h \in Hosts :
        (ProcessTask(h) /\ stepping_type[h] = "out" /\ pc'[h] = "waiting") =>
            /\ stepping_task[h] # NoNode
            /\ stepping_task[h] \notin Range(AncestorChain(Order[pos[h]]))
            /\ StoppedWith(h, "step")'
            /\ ~StoppedWith(h, "breakpoint")'
      ]_vars

\* C8 witness: stepping out of the include inc, the thread is about to enter
\* inc2, nested in inc, and process_task will find a breakpoint for it.
C8_Witness ==
    /\ pc["h1"] = "queue"
    /\ Order[pos["h1"]] = "inc2"
    /\ stepping_type["h1"] = "out"
    /\ stepping_task["h1"] = "inc"
    /\ line_breakpoint("inc2") # NoBp

\* C9: when the breakpoint found for a task has a condition, the thread stops
\* for the breakpoint only if the condition is truthy; when its evaluation
\* raises, the thread does not stop for the breakpoint, process_task raises
\* nothing to the engine and sends nothing but its thread and stopped events.
C9_ConditionDecidesAndErrorsCountAsFalse ==
    [][\A h \in Hosts :
        (ProcessTask(h) /\ HasCondition(Order[pos[h]])) =>
            LET b == get_breakpoint(PathOf(Order[pos[h]]), LineOf(Order[pos[h]]))
                cond == breakpoints[b].source_breakpoint.condition
            IN /\ StoppedWith(h, "breakpoint")' => cond = "truthy"
               /\ cond = "raises" =>
                    /\ pc'[h] # "raised"
                    /\ pc'[h] = "waiting" => StoppedWith(h, "step")'
                    /\ \A m \in Range(sent') : m.type \in {"ThreadEvent", "StoppedEvent"}
      ]_vars

\* C9 witness: the first task was entered while a breakpoint whose condition
\* raises covered it; process_task returned and the task runs.
C9_Witness ==
    /\ sent = <<ThreadEvent("started", threads["h1"])>>
    /\ pc["h1"] = "load"
    /\ Order[pos["h1"]] = "inc"
    /\ get_breakpoint("main.yml", 1) # NoBp
    /\ breakpoints[get_breakpoint("main.yml", 1)].source_breakpoint.condition = "raises"

\* C11: a breakpoint "changed" event only ever carries the id of a breakpoint
\* that _breakpoints holds when the event is enqueued: once a later request
\* for the path has been answered, and so has dropped the breakpoints of the
\* earlier one, no event names one of them.
C11_NoChangedEventForReplacedBreakpoint ==
    [][\A k \in 1..Len(sent') :
            sent'[k].type = "BreakpointEvent" => sent'[k].breakpoint.id \in DOMAIN breakpoints
      ]_vars

\* C10 as stated: once a breakpoint-set request for a path is processed, the
\* breakpoints stored for that path are exactly the ones the request created,
\* the ones its response lists.
C10_StoredAreTheCreatedOnes ==
    [][\A p \in RegistryPaths, reqs \in RequestLists, m \in BOOLEAN :
        SetBreakpointsRequest(p, reqs, m) =>
            IdsOn(breakpoints', p) = {sent'[1].breakpoints[k].id : k \in 1..Len(reqs)}
      ]_vars

\* C10: once a breakpoint-set request for a path is processed, the breakpoints
\* stored for that path are the ones the request created and stored, all of
\* them for a plain request and none for a request against a modified source:
\* no breakpoint stored for the path before is left.
C10_RequestReplacesBreakpointsOfPath ==
    [][\A p \in RegistryPaths, reqs \in RequestLists, m \in BOOLEAN :
        SetBreakpointsRequest(p, reqs, m) =>
            LET created == {sent'[1].breakpoints[k].id : k \in 1..Len(reqs)}
            IN /\ Cardinality(created) = Len(reqs)
               /\ created \cap DOMAIN breakpoints = {}
               /\ IdsOn(breakpoints', p) = IF m THEN {} ELSE created
               /\ IdsOn(breakpoints', p) \cap DOMAIN breakpoints = {}
      ]_vars

\* C10 witness: the file is learned, an earlier request stored breakpoint 1,
\* and a request against a modified source has just been answered with
\* breakpoint 2: nothing is stored any more.
C10_Witness ==
    /\ Len(sent) = 1
    /\ sent[1].type = "SetBreakpointsResponse"
    /\ Len(sent[1].breakpoints) = 1
    /\ sent[1].breakpoints[1].id = 2
    /\ sent[1].breakpoints[1].message = MsgModified
    /\ breakpoints = <<>>
    /\ source_info["inc.yml"] # <<>>

\* C12: a request for a path with no line list yet (and not against a
\* modified source) is answered, for every requested breakpoint, unverified,
\* with the "has not been loaded" message and with neither line nor end_line.
C12_UnloadedFileAnswerHasNoLines ==
    [][\A p \in RegistryPaths, reqs \in RequestLists :
        (SetBreakpointsRequest(p, reqs, FALSE) /\ source_info[p] = <<>>) =>
            \A k \in 1..Len(reqs) :
                LET bp == sent'[1].breakpoints[k]
                IN /\ ~bp.verified
                   /\ bp.message = MsgNotLoaded
                   /\ bp.line = PyNone
                   /\ bp.end_line = PyNone
      ]_vars

\* The (verified, line, end_line) of a stored breakpoint.
ResolvedTuple(b) == <<b.breakpoint.verified, b.breakpoint.line, b.breakpoint.end_line>>

\* C13: a learn call re-resolves every breakpoint stored on its path against
\* the new line list and sends one "changed" event, carrying the new values,
\* for each whose (verified, line, end_line) changed and none for the others,
\* in particular none at all when it repeats what the line list already
\* says; a breakpoint asked for at line L before the file was known becomes
\* verified with line L and end_line L when line L is learned as breakpointable.
C13_LearnReResolvesAndReportsChanges ==
    [][\A p \in LearnedPaths, l \in LearnLines, ty \in {0, 1} :
        RegisterPathBreakpoint(p, l, ty) =>
            LET on == IdsOn(breakpoints, p)
                moved == {i \in on : ResolvedTuple(breakpoints'[i]) # ResolvedTuple(breakpoints[i])}
                V == source_info'[p]
            IN /\ DOMAIN breakpoints' = DOMAIN breakpoints
               /\ \A i \in DOMAIN breakpoints \ on : breakpoints'[i] = breakpoints[i]
               /\ \A i \in on :
                    LET b == breakpoints'[i].breakpoint
                        L == breakpoints'[i].source_breakpoint.line
                    IN /\ breakpoints'[i].source_breakpoint = breakpoints[i].source_breakpoint
                       /\ b.id = i
                       /\ b.line >= 0 /\ b.line <= Min(L, Len(V) - 1)
                       /\ V[b.line + 1] # PyNone
                       /\ \A j \in (b.line + 1)..Min(L, Len(V) - 1) : V[j + 1] = PyNone
                       /\ b.end_line >= Min(L, Len(V) - 1) /\ b.end_line <= Len(V) - 1
                       /\ \A j \in (b.line + 1)..b.end_line : V[j + 1] = PyNone
                       /\ b.end_line + 1 <= Len(V) - 1 => V[b.end_line + 2] # PyNone
                       /\ b.verified = (V[b.line + 1] = 1)
               /\ Len(sent') = Cardinality(moved)
               /\ \A i \in moved :
                    \E k \in 1..Len(sent') :
                        sent'[k] = [type |-> "BreakpointEvent", reason |-> "changed",
                                    breakpoint |-> breakpoints'[i].breakpoint]
               /\ (source_info[p] # <<>> /\ Len(source_info[p]) > l /\ source_info[p][l + 1] = ty)
                    => sent' = <<>>
               /\ \A i \in on :
                    (source_info[p] = <<>> /\ breakpoints[i].source_breakpoint.line = l /\ ty = 1) =>
                        \E k \in 1..Len(sent') :
                            /\ sent'[k].breakpoint.id = i
                            /\ sent'[k].breakpoint.verified
                            /\ sent'[k].breakpoint.line = l
                            /\ sent'[k].breakpoint.end_line = l
      ]_vars

\* C13 witness: breakpoint 1 was asked for at line 2 of inc.yml before the
\* file was known, and line 2 has just been learned as breakpointable: the
\* one message sent is its "changed" event, verified, lines 2 to 2.
C13_Witness ==
    /\ source_info["inc.yml"] = <<0, PyNone, 1>>
    /\ 1 \in DOMAIN breakpoints
    /\ breakpoints[1].source_breakpoint.line = 2
    /\ sent = <<[type |-> "BreakpointEvent", reason |-> "changed",
                 breakpoint |-> [id |-> 1, verified |-> TRUE, message |-> NoMessage,
                                 path |-> "inc.yml", line |-> 2, end_line |-> 2]]>>

\* C14: a request against a known, unmodified file resolves each requested
\* line L as the reference algorithm does on the file's line list V: start is
\* the last entry at or before min(L, len(V) - 1) that is not a continuation,
\* end the last entry of the run of continuations after start, verified says
\* that V[start] is breakpointable, and the message is "Breakpoint cannot be
\* set here." exactly when V[start] is unbreakable.  The result is a function
\* of V and L: two entries of the request with the same line, and a stored
\* breakpoint of the path with that line, have the same resolved values.
C14_RequestResolutionIsTheReferenceAlgorithm ==
    [][\A p \in RegistryPaths, reqs \in RequestLists :
        (SetBreakpointsRequest(p, reqs, FALSE) /\ source_info[p] # <<>>) =>
            LET V == source_info[p]
                last == Len(V) - 1
                same(x, y) == /\ x.verified = y.verified /\ x.line = y.line
                              /\ x.end_line = y.end_line /\ x.message = y.message
            IN \A k \in 1..Len(reqs) :
                LET bp == sent'[1].breakpoints[k]
                    L == reqs[k].line
                    from == Min(L, last)
                    start == CHOOSE i \in 0..from :
                                /\ V[i + 1] # PyNone
                                /\ \A j \in (i + 1)..from : V[j + 1] = PyNone
                    end == CHOOSE e \in start..last :
                                /\ \A j \in (start + 1)..e : V[j + 1] = PyNone
                                /\ e + 1 <= last => V[e + 2] # PyNone
                IN /\ bp.line = start
                   /\ bp.end_line = end
                   /\ bp.verified = (V[start + 1] = 1)
                   /\ (bp.message = MsgCannotSet) = (V[start + 1] = 0)
                   /\ bp.message \in {MsgCannotSet, NoMessage}
                   /\ \A k2 \in 1..Len(reqs) :
                        reqs[k2].line = L => same(sent'[1].breakpoints[k2], bp)
                   /\ \A i \in IdsOn(breakpoints, p) :
                        breakpoints[i].source_breakpoint.line = L => same(breakpoints[i].breakpoint, bp)
      ]_vars

\* C14 witness: line 2 of inc.yml is breakpointable and line 1 a
\* continuation of the unbreakable start of the file; a request for lines 1
\* and 2 has been answered, line 1 resolved back to lines 0 to 1 where no
\* breakpoint can be set, line 2 verified.
C14_Witness ==
    /\ source_info["inc.yml"] = <<0, PyNone, 1>>
    /\ Len(sent) = 1
    /\ sent[1].type = "SetBreakpointsResponse"
    /\ Len(sent[1].breakpoints) = 2
    /\ breakpoints[sent[1].breakpoints[1].id].source_breakpoint.line = 1
    /\ sent[1].breakpoints[1].message = MsgCannotSet
    /\ sent[1].breakpoints[1].line = 0
    /\ sent[1].breakpoints[1].end_line = 1
    /\ sent[1].breakpoints[2].verified
    /\ sent[1].breakpoints[2].line = 2
    /\ sent[1].breakpoints[2].end_line = 2

\* C15: an entry of a path's line list that holds 0 (unbreakable) or 1
\* (breakpointable) keeps its value through every later learn call; the list
\* only grows.
C15_LearnedEntriesNeverChange ==
    [][\A p \in Paths :
        /\ Len(source_info'[p]) >= Len(source_info[p])
        /\ \A k \in 1..Len(source_info[p]) :
                source_info[p][k] # PyNone => source_info'[p][k] = source_info[p][k]
      ]_vars

\* C16: the line list of every path that has one starts with 0, unbreakable.
C16_EntryZeroIsUnbreakable ==
    \A p \in Paths : source_info[p] # <<>> => source_info[p][1] = 0

\* C16 witness: lines 1 and 2 of inc.yml have been learned, as breakpointable
\* and as unbreakable, and a breakpoint asked for at line 0 is stored.
C16_Witness ==
    /\ source_info["inc.yml"] = <<0, 1, 0>>
    /\ \E i \in DOMAIN breakpoints :
            /\ breakpoints[i].path = "inc.yml"
            /\ breakpoints[i].source_breakpoint.line = 0
            /\ breakpoints[i].breakpoint.message = MsgCannotSet

\* C17: every stored breakpoint that was resolved against a line list (by the
\* request that created it or by a later learn call) has its resolved line at
\* or before the requested line and its end_line at or after its line.
C17_ResolvedRangeIsOrdered ==
    \A i \in DOMAIN breakpoints :
        LET b == breakpoints[i]
        IN b.breakpoint.message # MsgNotLoaded =>
                /\ b.breakpoint.line <= b.source_breakpoint.line
                /\ b.breakpoint.end_line >= b.breakpoint.line

\* C17 witness: a breakpoint asked for at line 1, a continuation, is resolved
\* to lines 0 to 1, and one asked for at line 2 to lines 2 to 2.
C17_Witness ==
    /\ source_info["inc.yml"] = <<0, PyNone, 1>>
    /\ DOMAIN breakpoints = {1, 2}
    /\ breakpoints[1].source_breakpoint.line = 2
    /\ breakpoints[1].breakpoint.line = 2
    /\ breakpoints[1].breakpoint.end_line = 2
    /\ breakpoints[2].source_breakpoint.line = 1
    /\ breakpoints[2].breakpoint.line = 0
    /\ breakpoints[2].breakpoint.end_line = 1

\* C18: a request against a modified source is answered with one breakpoint
\* per entry, each unverified with the "modified source" message and each
\* with the next id of the counter, and stores none of them; as ids are
\* never handed out twice and whatever is stored later has a later id, none
\* of them is ever stored, so none can match a task or be in a "changed" event.
C18_ModifiedSourceBreakpointsAreNotStored ==
    [][/\ \A p \in RegistryPaths, reqs \in RequestLists :
            SetBreakpointsRequest(p, reqs, TRUE) =>
                /\ Len(sent'[1].breakpoints) = Len(reqs)
                /\ \A k \in 1..Len(reqs) :
                        LET bp == sent'[1].breakpoints[k]
                        IN /\ ~bp.verified
                           /\ bp.message = MsgModified
                           /\ bp.id = breakpoint_counter + k - 1
                           /\ bp.id \notin DOMAIN breakpoints
                           /\ bp.id \notin DOMAIN breakpoints'
                /\ breakpoint_counter' = breakpoint_counter + Len(reqs)
       /\ breakpoint_counter' >= breakpoint_counter
       /\ \A i \in DOMAIN breakpoints' \ DOMAIN breakpoints :
            /\ i >= breakpoint_counter
            /\ breakpoints'[i].breakpoint.message # MsgModified
       /\ \A i \in DOMAIN breakpoints : i < breakpoint_counter
       /\ \A k \in 1..Len(sent') :
            sent'[k].type = "BreakpointEvent" =>
                /\ sent'[k].breakpoint.id \in DOMAIN breakpoints
                /\ sent'[k].breakpoint.message # MsgModified
      ]_vars

\* C18 witness: the file is known, breakpoint 1 is stored on main.yml, and a
\* request against a modified inc.yml has just been answered with breakpoint
\* 2, which is not stored.
C18_Witness ==
    /\ Len(sent) = 1
    /\ sent[1].type = "SetBreakpointsResponse"
    /\ Len(sent[1].breakpoints) = 1
    /\ sent[1].breakpoints[1].id = 2
    /\ sent[1].breakpoints[1].path = "inc.yml"
    /\ sent[1].breakpoints[1].message = MsgModified
    /\ DOMAIN breakpoints = {1}
    /\ breakpoint_counter = 3
    /\ source_info["inc.yml"] # <<>>

\* C19: the ids handed out are unique and increase in the order they are
\* handed out, whatever the interleaving: a new thread id is at least 2 and
\* above every thread id in use, no two hosts' threads share an id, and a
\* new breakpoint id is above every breakpoint id handed out before.
C19_IdsAreUniqueAndIncreasing ==
    [][/\ \A h \in Hosts :
            (threads[h] = 0 /\ threads'[h] # 0) =>
                /\ threads'[h] >= 2
                /\ \A g \in Hosts \ {h} : threads'[h] > threads[g]
       /\ \A h \in Hosts : \A g \in Hosts \ {h} :
            threads'[h] # 0 => threads'[h] # threads'[g]
       /\ thread_counter' >= thread_counter
       /\ breakpoint_counter' >= breakpoint_counter
       /\ \A i \in DOMAIN breakpoints' \ DOMAIN breakpoints :
            /\ i >= breakpoint_counter
            /\ i < breakpoint_counter'
      ]_vars

\* C20: a request of a type without handler, or whose handler raises, is
\* answered with exactly one message, an error response with the request's
\* sequence number and command and a diagnostic message; the receive task
\* stays where it was, so the next request is dispatched and answered.
C20_FailedRequestGetsOneErrorResponse ==
    /\ [][\A seq \in 1..MaxSeq :
            \A c \in UnhandledCommands \cup {"setExceptionBreakpoints"} :
                (IF c \in UnhandledCommands
                 THEN UnhandledRequest(seq, c)
                 ELSE SetExceptionBreakpointsRequest(seq)) =>
                    /\ Len(sent') = 1
                    /\ sent'[1].type = "ErrorResponse"
                    /\ sent'[1].request_seq = seq
                    /\ sent'[1].command = c
                    /\ Len(sent'[1].message) = 2
                    /\ sent'[1].message[1] = "Unknown error: "
                    /\ sent'[1].message[2][1] = "NotImplementedError"
                    /\ recv_state' = "serving"
                    /\ connected' = connected
         ]_vars
    /\ [](recv_state = "serving" =>
            /\ ENABLED ContinueRequest(2, TRUE)
            /\ ENABLED SetExceptionBreakpointsRequest(1))

\* C20 witness: a continue request recorded a command for thread 3, and a
\* later request that no handler serves has been answered with its error.
C20_Witness ==
    /\ recv_state = "serving"
    /\ 3 \in DOMAIN waiting_threads
    /\ sent = <<[type |-> "ErrorResponse", command |-> "disconnect", request_seq |-> 2,
                 message |-> <<"Unknown error: ", <<"NotImplementedError", "DisconnectRequest">>>>]>>

\* C21: the receive thread never blocks on the backend: while an adapter is
\* served, the handler of any request can run to its response (or error
\* response) at once, whether or not a strategy is registered and wherever
\* the execution threads are.
C21_RequestHandlingNeverWaitsForBackend ==
    recv_state = "serving" =>
        /\ \A seq \in 1..MaxSeq :
                /\ ENABLED ConfigurationDoneRequest(seq)
                /\ ENABLED SetExceptionBreakpointsRequest(seq)
        /\ \A t \in HostTids :
                /\ ENABLED NextRequest(t)
                /\ \A single \in BOOLEAN : ENABLED ContinueRequest(t, single)

\* C22: a ConfigurationDone request is answered at once, whenever an
\* adapter is served, with its response, and sets the _configuration_done
\* latch; a strategy whose registration finds an adapter connected does not
\* enter the body of its context before the latch is set, and the latch is
\* set only by a ConfigurationDone request or by the end of the receive task.
C22_ConfigurationDoneReleasesGuardedExecution ==
    /\ [][/\ \A seq \in 1..MaxSeq :
               ConfigurationDoneRequest(seq) =>
                   /\ sent' = <<[type |-> "ConfigurationDoneResponse", request_seq |-> seq]>>
                   /\ configuration_done'
          /\ \A s \in Strategies :
               (with_pc[s] # "body" /\ with_pc'[s] = "body") =>
                   \/ with_pc[s] = "entered" /\ ~da_connected
                   \/ configuration_done
          /\ (~configuration_done /\ configuration_done') =>
                   \/ \E seq \in 1..MaxSeq : ConfigurationDoneRequest(seq)
                   \/ recv_state' = "ended"
          /\ configuration_done => configuration_done'
         ]_vars
    /\ [](recv_state = "serving" => \A seq \in 1..MaxSeq : ENABLED ConfigurationDoneRequest(seq))

\* C22 witness: a strategy registered with an adapter connected and waits;
\* the ConfigurationDone request has just been answered, so its wait returns.
C22_Witness ==
    /\ recv_state = "serving"
    /\ strategy = "s1"
    /\ with_pc["s1"] = "waiting"
    /\ configuration_done
    /\ sent = <<[type |-> "ConfigurationDoneResponse", request_seq |-> 1]>>

\* The strategies inside their with_strategy context: registered and not yet
\* through the finally clause.
InContext == {s \in Strategies : with_pc[s] \in {"entered", "waiting", "body"}}

\* C23: at most one strategy is registered at any time, the one inside its
\* context; a strategy that registers while another is registered raises and
\* the other stays registered; when a context exits, with or without an
\* exception, no strategy remains registered.
C23_AtMostOneStrategyRegistered ==
    /\ [](/\ Cardinality(InContext) <= 1
          /\ strategy = NoStrategy <=> InContext = {}
          /\ strategy # NoStrategy => InContext = {strategy})
    /\ [][\A s \in Strategies :
            /\ (WithStrategyEnter(s) /\ strategy # NoStrategy) =>
                    /\ strategy' = strategy
                    /\ with_pc'[s] = "raised"
                    /\ with_pc'[strategy] = with_pc[strategy]
            /\ \A raises \in BOOLEAN :
                    WithStrategyExit(s, raises) => strategy' = NoStrategy
         ]_vars

\* C23 witness: the second strategy tried to register while the first was in
\* the body of its context, and raised.
C23_Witness ==
    /\ strategy = "s1"
    /\ with_pc["s1"] = "body"
    /\ with_pc["s2"] = "raised"

\* C25: when the receive task ends (the token is cancelled, the stream ends
\* in connect mode, or the transport fails) while a strategy is registered,
\* that step calls the strategy's ended() once, and no other step calls any
\* ended(): a strategy is told at most once, and exactly once if it was
\* registered when the task ended.
C25_EndedIsCalledExactlyOnce ==
    /\ [][/\ (recv_state # "ended" /\ recv_state' = "ended") =>
                /\ \A s \in Strategies :
                     ended_calls'[s] = ended_calls[s] + (IF s = strategy THEN 1 ELSE 0)
                /\ strategy # NoStrategy => waiting_threads' = <<>>
          /\ ~(recv_state # "ended" /\ recv_state' = "ended") =>
                ended_calls' = ended_calls
          /\ recv_state = "ended" => recv_state' = "ended"
         ]_vars
    /\ [](\A s \in Strategies : ended_calls[s] <= 1)

\* C25 witness: the receive task ended while the first strategy was in the
\* body of its context, and that strategy's ended() has been called once.
C25_Witness ==
    /\ recv_state = "ended"
    /\ strategy = "s1"
    /\ with_pc["s1"] = "body"
    /\ ended_calls = [s \in Strategies |-> IF s = "s1" THEN 1 ELSE 0]

\* The messages of a queue without the None signals.
NonSentinel(q) == SelectSeq(q, LAMBDA m : m # NoMsg)

\* C24: the messages handed to the transport, followed by those still in
\* the queue, are the messages send() was called with, in the order of the
\* calls, whichever thread called: none is dropped, duplicated or reordered;
\* and the transport is handed one message at a time, the oldest queued.
C24_MessagesLeaveInSendOrder ==
    /\ [](wire \o NonSentinel(send_queue) = NonSentinel(enqueued))
    /\ [][wire' # wire =>
            /\ recv_state = "serving"
            /\ send_queue # <<>>
            /\ wire' = Append(wire, Head(send_queue))
            /\ send_queue' = Tail(send_queue)
         ]_vars

\* C24 witness: three messages were sent by different threads while an
\* adapter was served; two have been handed to the transport and the third
\* is still queued.
C24_Witness ==
    /\ recv_state = "serving"
    /\ enqueued = <<ThreadEvent("started", 2), ContinueResponse(TRUE), ThreadEvent("started", 3)>>
    /\ wire = <<ThreadEvent("started", 2), ContinueResponse(TRUE)>>
    /\ send_queue = <<ThreadEvent("started", 3)>>

\* C26: when cancel() is called while a thread is blocked in recv_into (the
\* peer neither sends, closes nor resets), the call does not hang: once
\* cancel() is through, the socket's read side is shut down by the
\* operation's callback, called once, so the socket call returns 0; and an
\* operation whose socket call returns with the token cancelled raises
\* CancelledError instead of handing on a count, a 0 least of all.
C26_CancelledRecvRaisesCancelled ==
    /\ [](\A t \in OpThreads :
            (/\ op[t].kind = "recv"
             /\ op[t].pc = "calling"
             /\ cancelled
             /\ token_lock = NoThread
             /\ sock.peer = "open") =>
                /\ abort_calls[op[t].id] = 1
                /\ ENABLED SocketReturn(t, "zero"))
    /\ [][\A t \in OpThreads :
            (/\ OpHandle(t)
             /\ op[t].kind = "recv"
             /\ cancelled
             /\ op[t].res # "oserror") =>
                op'[t].out = "cancelled"
         ]_vars

\* C26 witness: the peer is quiet, cancel() has shut down the read side, the
\* blocked recv_into returned 0 and the operation raised CancelledError.
C26_Witness ==
    \E t \in OpThreads :
        /\ op[t].kind = "recv"
        /\ op[t].pc = "leaving"
        /\ op[t].res = "zero"
        /\ op[t].out = "cancelled"
        /\ sock.peer = "open"
        /\ abort_calls[op[t].id] = 1

\* C27: a sendall whose socket call fails because cancel() shut down the
\* write side (the peer has done nothing) raises CancelledError, never the
\* OSError, wherever cancel() is when the failure is handled.
C27_CancelledSendRaisesCancelled ==
    [][\A t \in OpThreads :
        (/\ OpHandle(t)
         /\ op[t].kind = "send"
         /\ op[t].res = "oserror"
         /\ sock.shut_wr
         /\ sock.peer = "open") =>
            op'[t].out = "cancelled"
      ]_vars

\* C28: a guarded operation raises CancelledError only if the token has
\* been cancelled; a failure of the socket call while the token is not
\* cancelled comes out as the OSError it is.
C28_CancelledErrorOnlyIfCancelled ==
    [][\A t \in OpThreads :
        (op'[t].out = "cancelled" /\ op[t].out # "cancelled") => cancelled
      ]_vars

\* C29: once the token is cancelled, an operation that starts raises
\* CancelledError in with_cancel: its socket call is not made, it gets no id
\* and the registry and the id counter stay as they are; the registry gets
\* no new entry from then on.
C29_NoOperationStartsAfterCancel ==
    [][/\ \A t \in OpThreads, kind \in OpKinds :
            (WithCancelEnter(t, kind) /\ cancelled) =>
                /\ op'[t] = [kind |-> kind, pc |-> "done", id |-> PyNone, res |-> "",
                             out |-> "cancelled"]
                /\ cancel_funcs' = cancel_funcs
                /\ cancel_id' = cancel_id
                /\ sock' = sock
       /\ cancelled =>
            /\ DOMAIN cancel_funcs' \subseteq DOMAIN cancel_funcs
            /\ \A t \in OpThreads : op'[t].pc = "calling" => op[t].pc = "calling"
      ]_vars

\* C29 witness: cancel() has run through, and an operation that was started
\* after it raised CancelledError without an id and without a socket call.
C29_Witness ==
    /\ cancelled
    /\ \E k \in CancelThreads : canceller[k].pc = "done"
    /\ op["o1"] = [kind |-> "recv", pc |-> "done", id |-> PyNone, res |-> "",
                   out |-> "cancelled"]

\* C30: cancel() is idempotent.  A call that finds the token not cancelled
\* sets the latch, calls each registered callback and leaves the registry
\* empty; a call that finds it cancelled calls no callback and changes
\* nothing in the token; so no callback is ever called twice.
C30_CancelIsIdempotent ==
    /\ [](\A id \in DOMAIN abort_calls : abort_calls[id] <= 1)
    /\ [][\A k \in CancelThreads :
            /\ CancelBegin(k) => cancelled'
            /\ (CancelBegin(k) /\ cancelled) =>
                    /\ canceller'[k].todo = <<>>
                    /\ cancel_funcs' = cancel_funcs
            /\ (canceller[k].pc = "loop" /\ canceller'[k].pc # "loop") =>
                    /\ cancel_funcs' = <<>>
                    /\ \A id \in DOMAIN cancel_funcs : abort_calls'[id] = 1
         ]_vars

\* C31: cancel() never gets stuck: a thread inside cancel(), in its loop or
\* in an abort callback that enters with_cancel on the same token, can always
\* take its next step, so the call comes to its end.
C31_CancelNeverDeadlocks ==
    [](\A k \in CancelThreads :
        canceller[k].pc \in {"loop", "callback"} =>
            ENABLED (CancelCall(k) \/ CancelEnd(k) \/ CallbackWithCancel(k)))

\* C32: SocketHelper.recv(n) on a token that is not cancelled returns at
\* most n bytes, and they are the bytes the peer sent next, in order; it
\* returns n bytes whenever the peer has sent that many, and fewer than n only
\* after a recv_into that returned 0, with every byte the peer sent before
\* it closed the connection.
C32_RecvReturnsExactlyOrUntilClose ==
    [][RecvReturn =>
        LET data == rx'.data
        IN /\ Len(data) <= rx.n
           /\ data = SubSeq(rx.stream, rx.start + 1, rx.start + Len(data))
           /\ Len(rx.stream) - rx.start >= rx.n => Len(data) = rx.n
           /\ Len(data) < rx.n =>
                /\ rx.data_read = 0
                /\ sock.peer = "closed"
                /\ rx.start + Len(data) = Len(rx.stream)
      ]_vars

\* C32 witness: a call for three bytes that got them in two reads, of one
\* and two bytes, while the peer has sent a fourth.
C32_Witness ==
    /\ rx.pc = "done"
    /\ rx.n = 3
    /\ rx.data = <<1, 0, 1>>
    /\ rx.data_read = 2
    /\ Len(rx.stream) = 4

\* The frames of a host's thread that belong there while the task runs: the
\* frame of the task itself and the frames of the include tasks the task is
\* nested in.
OwnOrEnclosing(task, frame_task) ==
    \/ frame_task = task
    \/ IsInclude(frame_task) /\ HasAncestor(task, frame_task)

\* C33: while a task runs on a thread, every frame of the thread's stack is
\* in the frames map and is the frame of that task or of an include task
\* that encloses it, one frame for each; and once the result of a task that
\* is no include is processed, no frame of that task is left.
C33_StackHoldsOnlyLiveFrames ==
    \A h \in Hosts :
        LET stack == stack_frames[h]
        IN /\ \A k \in 1..Len(stack) : stack[k] \in DOMAIN stackframes
           /\ \A k, j \in 1..Len(stack) :
                stackframes[stack[k]].task = stackframes[stack[j]].task => k = j
           /\ running[h] # NoNode =>
                \A k \in 1..Len(stack) :
                    OwnOrEnclosing(running[h], stackframes[stack[k]].task)
           /\ (running[h] = NoNode /\ stack # <<>>) => IsInclude(stackframes[Head(stack)].task)

\* C34: every variable of the variables map belongs to a frame of the
\* frames map, and is listed by that frame.
C34_VariablesDieWithTheirFrame ==
    \A v \in DOMAIN variables :
        /\ variables[v].stackframe \in DOMAIN stackframes
        /\ v \in Range(stackframes[variables[v].stackframe].variables)

\* C35: when no learn call and no breakpoint request is under way, every
\* stored breakpoint of a path that has a line list is stored as resolved
\* against that list as it is now, and the resolution of
\* register_path_breakpoint and that of the SetBreakpointsRequest handler
\* give the same verified flag, line and end line for it.
C35_StoredResolutionIsCurrent ==
    (learn = NoLearn /\ setting = NoSetting) =>
        \A i \in DOMAIN breakpoints :
            LET b == breakpoints[i]
                info == source_info[b.path]
            IN info # <<>> =>
                LET learnt == RegisterResolve(info, b)
                    asked == RequestResolve(i, b.path, b.source_breakpoint, FALSE, info)
                IN /\ <<learnt.verified, learnt.line, learnt.end_line>>
                        = <<asked.verified, asked.line, asked.end_line>>
                   /\ ResolvedTuple(b) = <<learnt.verified, learnt.line, learnt.end_line>>

\* C36: a host's thread gets its id once, with a "started" event sent for
\* it in the same call; a thread that begins to wait has sent exactly one
\* Stopped event, with its own id, in the call that ends in the wait; and
\* every Stopped event names a thread that was started in an earlier call or
\* whose "started" event comes before it in the same call.
C36_StartedBeforeStoppedAndOneStoppedPerStop ==
    [][\A h \in Hosts :
        LET stopped == {k \in 1..Len(sent') : sent'[k].type = "StoppedEvent"}
            begins(g) == pc[g] # "waiting" /\ pc'[g] = "waiting"
        IN /\ threads[h] # 0 => threads'[h] = threads[h]
           /\ (threads[h] = 0 /\ threads'[h] # 0) =>
                /\ threads'[h] \in HostTids
                /\ ThreadEvent("started", threads'[h]) \in Range(sent')
           /\ begins(h) =>
                /\ Cardinality(stopped) = 1
                /\ \A k \in stopped : sent'[k].thread_id = threads'[h]
           /\ \A k \in stopped :
                \E g \in Hosts :
                    /\ begins(g)
                    /\ sent'[k].thread_id = threads'[g]
                    /\ \/ threads[g] = threads'[g]
                       \/ \E j \in 1..(k - 1) :
                            sent'[j] = ThreadEvent("started", sent'[k].thread_id)
      ]_vars

\* C36 witness: the second host's thread stopped at its first task; its call
\* sent the "started" event of thread 3 and then the Stopped event of thread 3.
C36_Witness ==
    /\ pc["h2"] = "waiting"
    /\ threads["h2"] = 3
    /\ Len(sent) = 2
    /\ sent[1] = ThreadEvent("started", 3)
    /\ sent[2].type = "StoppedEvent"
    /\ sent[2].thread_id = 3

\* C37: a command for a thread that is not stopped is not kept: when a
\* thread begins to wait in process_task no command is recorded for it, so
\* the wait lasts until a command is sent after the stop began.
C37_StopWaitsForALaterCommand ==
    [][\A h \in Hosts :
        (pc[h] # "waiting" /\ pc'[h] = "waiting") =>
            threads'[h] \notin DOMAIN waiting_threads'
      ]_vars

\* C38: once the receive task has ended and told the strategy so, a
\* process_task call returns without waiting, whatever step mode the thread
\* has recorded.
C38_NoStopAfterEnded ==
    [][\A h \in Hosts :
        (recv_state = "ended" /\ ProcessTask(h)) => pc'[h] # "waiting"
      ]_vars

\* C39: a thread whose stepping mode is step-out has a stepping task.
C39_StepOutHasASteppingTask ==
    \A h \in Hosts : stepping_type[h] = "out" => stepping_task[h] # NoNode

\* The number of tasks a task is nested in.
Depth(n) == Cardinality({k \in 1..Len(AncestorChain(n)) : IsTask(AncestorChain(n)[k])})

\* C40 as stated: with a step-over pending, process_task stops the thread at
\* every task that is nested no deeper than the stepping task.
C40_StepOverStopsAtSameOrShallowerLevel ==
    [][\A h \in Hosts :
        (/\ ProcessTask(h)
         /\ stepping_type[h] = "over"
         /\ stepping_task[h] # NoNode
         /\ Depth(Order[pos[h]]) <= Depth(stepping_task[h])) =>
            pc'[h] = "waiting"
      ]_vars

\* C40, amended: with a step-over pending whose stepping task is inside an
\* inclusion, a task inside the same inclusion at the same level stops the
\* thread for the step, and a task outside that inclusion does not: the
\* thread stops there for a breakpoint only, and if it does not stop the
\* step-over stays pending with the same stepping task.
C40_StepOverStopsInsideTheSameInclusionOnly ==
    [][\A h \in Hosts :
        LET task == Order[pos[h]]
            inclusion == EnclosingTask(stepping_task[h])
        IN (/\ ProcessTask(h)
            /\ stepping_type[h] = "over"
            /\ stepping_task[h] # NoNode
            /\ inclusion # NoNode) =>
                /\ EnclosingTask(task) = inclusion => StoppedWith(h, "step")'
                /\ ~HasAncestor(task, inclusion) =>
                    /\ ~StoppedWith(h, "step")'
                    /\ pc'[h] = "waiting" => StoppedWith(h, "breakpoint")'
                    /\ pc'[h] # "waiting" =>
                        /\ stepping_type'[h] = "over"
                        /\ stepping_task'[h] = stepping_task[h]
      ]_vars

\* C40 witness: step-over was asked for at c3, the last task of the included
\* file; the thread ran t4, the task after the include, without stopping and
\* is through the play with the step-over still pending.
C40_Witness ==
    /\ pc["h1"] = "done"
    /\ stepping_type["h1"] = "over"
    /\ stepping_task["h1"] = "c3"

====
